---- MODULE Spec2Model ----
(***************************************************************************)
(* A model of legendary-chooser's configuration engine:                    *)
(*   - ConfigurationComponent (components.py): a dictionary of card groups *)
(*     with the count needed to be complete, and its append method;        *)
(*   - GameConfiguration (components.py): five components, the             *)
(*     next_game_component state machine and the cascading validate;       *)
(*   - the rules module (rules.py): the counts, the blacklist and the      *)
(*     required and exclusive masterminds, read from the base rules and    *)
(*     the house rules of the scheme's legendary set;                      *)
(*   - __eq__ and __hash__ of components and configurations, and deep      *)
(*     copies of a configuration (components.py);                          *)
(*   - generate (main.py): the search that clones a configuration, appends *)
(*     one card group and validates at the borders of the components.      *)
(*                                                                         *)
(* Python values are written as strings where a variable holds values of   *)
(* several Python types: "True", "False", "ValidationError",               *)
(* "ConfigurationError", and components are named by their card_class_use. *)
(***************************************************************************)
EXTENDS Integers, FiniteSets, Sequences, TLC

\* ------------------------------------------------------------------ bounds

\* The enumerated values 1..MaxValue of each card class of a legendary set.
MaxValue == 1

\* The largest count one component is constructed with.
MaxCount == 2

\* The largest sum of the five counts of one GameConfiguration.
MaxTotal == 3

\* The largest sum of the five counts of the scheme of a run of generate.
MaxSlots == 2

\* The enumerated values 1..MaxRuleValue of the card groups and rule lists the
\* rule checks and the rule functions are exercised with.
MaxRuleValue == 2

\* ------------------------------------------------------------ the catalog

\* util.py: PACKAGED_LEGENDARY_SETS.
PACKAGED_LEGENDARY_SETS == {"buffy", "big_trouble"}

\* A card group is a member of the enumeration of one card class of one
\* legendary set (types.py): members of different sets with the same value
\* are different keys.
CardGroups == [set : PACKAGED_LEGENDARY_SETS, value : 1..MaxValue]

\* ------------------------------------------------- ConfigurationComponent

\* The dictionary after "self._card_groups[group] = package": the key is
\* added, or the package of a key already there is replaced.
SetItem(card_groups, group, package) ==
    [g \in (DOMAIN card_groups) \cup {group} |->
        IF g = group THEN package ELSE card_groups[g]]

\* ConfigurationComponent.append: the assignment comes first, then the length
\* check that raises; an exception does not undo the assignment.
append(comp, group, package) ==
    LET new_groups == SetItem(comp.card_groups, group, package)
    IN  [card_groups |-> new_groups,
         raised      |-> Cardinality(DOMAIN new_groups) > comp.count]

\* The card_class_use of the five components of a GameConfiguration and of
\* its VillainDeck, in the order next_game_component asks for them.
Components ==
    <<"masterminds", "villains", "henchmen", "heroes_in_villain_deck", "enforcers">>

ComponentNames == {Components[i] : i \in DOMAIN Components}

\* ConfigurationComponent.__init__: no card groups yet.
NewComponent(card_class_use, n) ==
    [card_class_use |-> card_class_use, count |-> n, card_groups |-> << >>]

VARIABLES
    component,       \* a ConfigurationComponent on its own
    count,           \* GameConfiguration: the count of each of its components
    card_groups,     \* GameConfiguration: the card groups of each component
    always_leads,    \* GameConfiguration: the "always leads" setting
    scheme_set_name, \* GameConfiguration: the legendary set of the scheme
    rules_config,    \* the base and house rules loaded for the scheme's set
    heap,            \* the dictionaries of the components, by their address
    refs,            \* for each configuration, the address of each component's dictionary
    rule_sets,       \* generate: what the rules functions return for the scheme
    to_process,      \* generate: the configurations still to be extended
    final_game_configs, \* generate: the complete configurations collected
    game_config,     \* generate: the configuration popped, and what it needs next
    candidates,      \* generate: the card groups still to be tried on game_config
    user_data_dir,   \* the files of the user's data directory
    call,            \* initialize: where the call is, and what it has written
    result           \* what the last call did: its arguments and its outcome

\* The variables of the copies of a configuration and of generate.
search_vars ==
    <<heap, refs, rule_sets, to_process, final_game_configs, game_config, candidates>>

\* The variables of the files on disk and of initialize.
file_vars == <<user_data_dir, call>>

vars ==
    <<component, count, card_groups, always_leads, scheme_set_name, rules_config,
      search_vars, file_vars, result>>

config_vars ==
    <<count, card_groups, always_leads, scheme_set_name, rules_config, search_vars,
      file_vars>>

\* The value of rules_config where the rules files are not read: the
\* specifications of a configuration and of a component draw the counts and
\* what the rules functions return directly.
NoRules == [base |-> << >>, house |-> << >>]

NoCall == [op |-> "none"]

\* What rules.required and rules.exclusive return: None, or a set of card
\* groups (never the empty set: "None if len(required) == 0").
None == [is_none |-> TRUE, groups |-> {}]

SomeGroups(groups) == [is_none |-> FALSE, groups |-> groups]

\* No rule: None for every component, and the scheme is not blacklisted.
NoRuleSets ==
    [required |-> [c \in ComponentNames |-> None],
     exclusive |-> [c \in ComponentNames |-> None],
     blacklisted |-> FALSE]

\* No configuration is copied, generate does not run and no file is touched.
NoSearch ==
    /\ heap = << >>
    /\ refs = << >>
    /\ rule_sets = << >>
    /\ to_process = << >>
    /\ final_game_configs = {}
    /\ game_config = << >>
    /\ candidates = << >>
    /\ user_data_dir = << >>
    /\ call = << >>

Outcome(raised) == IF raised THEN "ConfigurationError" ELSE "returned"

\* -------------------------------------------------------- GameConfiguration

Size(c) == Cardinality(DOMAIN card_groups[c])

\* next_game_component in the order of its docstring, Enforcers before Heroes
\* in the Villain Deck.
next_game_component_docstring_order ==
    IF count["masterminds"] > 0 /\ Size("masterminds") < count["masterminds"]
    THEN "masterminds"
    ELSE IF count["villains"] > 0 /\ Size("villains") < count["villains"]
    THEN "villains"
    ELSE IF count["henchmen"] > 0 /\ Size("henchmen") < count["henchmen"]
    THEN "henchmen"
    ELSE IF count["enforcers"] > 0 /\ Size("enforcers") < count["enforcers"]
    THEN "enforcers"
    ELSE IF /\ count["heroes_in_villain_deck"] > 0
            /\ Size("heroes_in_villain_deck") < count["heroes_in_villain_deck"]
    THEN "heroes_in_villain_deck"
    ELSE "False"

\* next_game_component without the "count > 0" tests and with "<=" for "<".
next_game_component_not_more ==
    IF Size("masterminds") <= count["masterminds"]
    THEN "masterminds"
    ELSE IF Size("villains") <= count["villains"]
    THEN "villains"
    ELSE IF Size("henchmen") <= count["henchmen"]
    THEN "henchmen"
    ELSE IF Size("heroes_in_villain_deck") <= count["heroes_in_villain_deck"]
    THEN "heroes_in_villain_deck"
    ELSE IF Size("enforcers") <= count["enforcers"]
    THEN "enforcers"
    ELSE "False"

\* GameConfiguration.next_game_component: the component, or False.
next_game_component ==
    IF count["masterminds"] > 0 /\ Size("masterminds") < count["masterminds"]
    THEN "masterminds"
    ELSE IF count["villains"] > 0 /\ Size("villains") < count["villains"]
    THEN "villains"
    ELSE IF count["henchmen"] > 0 /\ Size("henchmen") < count["henchmen"]
    THEN "henchmen"
    ELSE IF /\ count["heroes_in_villain_deck"] > 0
            /\ Size("heroes_in_villain_deck") < count["heroes_in_villain_deck"]
    THEN "heroes_in_villain_deck"
    ELSE IF count["enforcers"] > 0 /\ Size("enforcers") < count["enforcers"]
    THEN "enforcers"
    ELSE "False"

\* The sets a rules file of the scheme's legendary set can name: the indices
\* are looked up in the enumeration of the scheme's own package.
RuleSets ==
    {None} \cup
    {SomeGroups({[set |-> scheme_set_name, value |-> v] : v \in values}) :
        values \in (SUBSET (1..MaxValue)) \ {{}}}

\* _check_required asking for the configured card groups to be exactly the
\* required ones.
_check_required_identical(c, required) ==
    IF ~required.is_none
    THEN IF required.groups # DOMAIN card_groups[c] THEN FALSE ELSE TRUE
    ELSE TRUE

\* GameConfiguration._check_required, required being what rules.required
\* returned for the component.
_check_required(c, required) ==
    IF ~required.is_none
    THEN IF ~(required.groups \subseteq DOMAIN card_groups[c]) THEN FALSE ELSE TRUE
    ELSE TRUE

\* _check_exclusive without the test for an empty component.
_check_exclusive_subset_only(c, exclusive) ==
    IF ~exclusive.is_none
    THEN IF ~(DOMAIN card_groups[c] \subseteq exclusive.groups) THEN FALSE ELSE TRUE
    ELSE TRUE

\* GameConfiguration._check_exclusive, exclusive being what rules.exclusive
\* returned for the component.
_check_exclusive(c, exclusive) ==
    IF ~exclusive.is_none
    THEN IF \/ ~(DOMAIN card_groups[c] \subseteq exclusive.groups)
            \/ DOMAIN card_groups[c] = {}
         THEN FALSE ELSE TRUE
    ELSE TRUE

\* The outcome of a validation: what it returned or raised, and which of the
\* rules functions it called on the way.
Ends(value, calls) == [value |-> value, calls |-> calls]

\* _simple_validate comparing the length with the masterminds' count instead
\* of the count of the component under validation.
_simple_validate_masterminds_count(c, required, exclusive) ==
    IF Size(c) # count["masterminds"]
    THEN Ends("ValidationError", {})
    ELSE IF ~_check_required(c, required)
    THEN Ends("False", {"required"})
    ELSE IF ~_check_exclusive(c, exclusive)
    THEN Ends("False", {"required", "exclusive"})
    ELSE Ends("True", {"required", "exclusive"})

\* _simple_validate returning True as soon as one of the two checks passes.
_simple_validate_either_check(c, required, exclusive) ==
    IF Size(c) # count[c]
    THEN Ends("ValidationError", {})
    ELSE IF ~_check_required(c, required) /\ ~_check_exclusive(c, exclusive)
    THEN Ends("False", {"required", "exclusive"})
    ELSE Ends("True", {"required", "exclusive"})

\* GameConfiguration._simple_validate.
_simple_validate(c, required, exclusive) ==
    IF Size(c) # count[c]
    THEN Ends("ValidationError", {})
    ELSE IF ~_check_required(c, required)
    THEN Ends("False", {"required"})
    ELSE IF ~_check_exclusive(c, exclusive)
    THEN Ends("False", {"required", "exclusive"})
    ELSE Ends("True", {"required", "exclusive"})

\* always_lead_villains looked up in the package of the scheme instead of the
\* package stored with each mastermind.
always_lead_villains_of_scheme_set ==
    {[set |-> scheme_set_name, value |-> m.value] :
        m \in DOMAIN card_groups["masterminds"]}

\* _validate_villains: mastermind_package.Villains(mastermind.value) for each
\* configured mastermind, the package being the one stored with it.
always_lead_villains ==
    {[set |-> card_groups["masterminds"][m], value |-> m.value] :
        m \in DOMAIN card_groups["masterminds"]}

Min(a, b) == IF a < b THEN a ELSE b

\* _validate_villains counting one success needed for every configured
\* mastermind, however few villains there are.
successes_needed_per_mastermind ==
    Size("masterminds")
    - Cardinality({v \in DOMAIN card_groups["villains"] : v \in always_lead_villains})

\* _validate_villains: what is left of successes_needed after the loop over
\* the configured villains.
successes_needed ==
    Min(Size("villains"), Size("masterminds"))
    - Cardinality({v \in DOMAIN card_groups["villains"] : v \in always_lead_villains})

\* _validate_villains making the "always leads" check whatever the setting.
_validate_villains_setting_ignored(required, exclusive) ==
    IF successes_needed > 0
    THEN Ends("False", {})
    ELSE _simple_validate("villains", required, exclusive)

\* _validate_villains with the simple validation first and the "always leads"
\* check after it.
_validate_villains_simple_first(required, exclusive) ==
    LET simple == _simple_validate("villains", required, exclusive)
    IN  IF simple.value # "True"
        THEN simple
        ELSE IF always_leads /\ successes_needed > 0
        THEN Ends("False", simple.calls)
        ELSE simple

\* GameConfiguration._validate_villains.
_validate_villains(required, exclusive) ==
    IF always_leads /\ successes_needed > 0
    THEN Ends("False", {})
    ELSE _simple_validate("villains", required, exclusive)

\* GameConfiguration._validate_scheme, blacklisted being what
\* rules.scheme_blacklisted returned.
_validate_scheme(blacklisted) ==
    IF blacklisted
    THEN Ends("False", {"scheme_blacklisted"})
    ELSE Ends("True", {"scheme_blacklisted"})

\* validate with the cascade in the order the components are filled,
\* masterminds first.
validate_build_order(required, exclusive, blacklisted) ==
    IF DOMAIN card_groups["masterminds"] # {}
    THEN _simple_validate("masterminds", required, exclusive)
    ELSE IF DOMAIN card_groups["villains"] # {}
    THEN _validate_villains(required, exclusive)
    ELSE IF DOMAIN card_groups["henchmen"] # {}
    THEN _simple_validate("henchmen", required, exclusive)
    ELSE IF DOMAIN card_groups["heroes_in_villain_deck"] # {}
    THEN _simple_validate("heroes_in_villain_deck", required, exclusive)
    ELSE IF DOMAIN card_groups["enforcers"] # {}
    THEN _simple_validate("enforcers", required, exclusive)
    ELSE _validate_scheme(blacklisted)

\* GameConfiguration.validate.
validate(required, exclusive, blacklisted) ==
    IF DOMAIN card_groups["enforcers"] # {}
    THEN _simple_validate("enforcers", required, exclusive)
    ELSE IF DOMAIN card_groups["heroes_in_villain_deck"] # {}
    THEN _simple_validate("heroes_in_villain_deck", required, exclusive)
    ELSE IF DOMAIN card_groups["henchmen"] # {}
    THEN _simple_validate("henchmen", required, exclusive)
    ELSE IF DOMAIN card_groups["villains"] # {}
    THEN _validate_villains(required, exclusive)
    ELSE IF DOMAIN card_groups["masterminds"] # {}
    THEN _simple_validate("masterminds", required, exclusive)
    ELSE _validate_scheme(blacklisted)

\* ----------------------------------- a component on its own (SpecComponent)

\* No GameConfiguration is in use while a component is exercised on its own.
NoConfiguration ==
    /\ count = [c \in ComponentNames |-> 0]
    /\ card_groups = [c \in ComponentNames |-> << >>]
    /\ always_leads = TRUE
    /\ scheme_set_name = "buffy"
    /\ rules_config = NoRules
    /\ NoSearch

InitComponent ==
    /\ \E use \in ComponentNames, n \in 0..MaxCount :
           component = NewComponent(use, n)
    /\ NoConfiguration
    /\ result = NoCall

\* comp.append(group, package), the caller catching ConfigurationError as
\* test_configuration_component does.
ComponentAppend ==
    /\ \E group \in CardGroups, package \in PACKAGED_LEGENDARY_SETS :
        LET r == append(component, group, package)
        IN  /\ component' = [component EXCEPT !.card_groups = r.card_groups]
            /\ result' = [op |-> "append", group |-> group, package |-> package,
                          value |-> Outcome(r.raised)]
    /\ UNCHANGED config_vars

NextComponent == ComponentAppend

SpecComponent == InitComponent /\ [][NextComponent]_vars

\* ------------------------------ a GameConfiguration (Spec, SpecValidate)

Total(counts) ==
    counts["masterminds"] + counts["villains"] + counts["henchmen"]
    + counts["heroes_in_villain_deck"] + counts["enforcers"]

\* GameConfiguration.__init__: the five counts come from rules.count, every
\* component starts empty.
Init ==
    /\ count \in {counts \in [ComponentNames -> 0..MaxCount] : Total(counts) <= MaxTotal}
    /\ card_groups = [c \in ComponentNames |-> << >>]
    /\ always_leads \in BOOLEAN
    /\ scheme_set_name \in PACKAGED_LEGENDARY_SETS
    /\ rules_config = NoRules
    /\ NoSearch
    /\ component = NewComponent("masterminds", 0)
    /\ result = NoCall

\* component.append(card_group, legendary_set.__name__) on one component of
\* the configuration, the package being the card group's own legendary set.
\* A call that raises ConfigurationError ends the caller (nothing in the
\* package catches it on a GameConfiguration), so only calls that return are
\* steps here; SpecComponent has the calls that raise.
ConfigAppend ==
    /\ \E c \in ComponentNames, group \in CardGroups :
        LET r == append([count |-> count[c], card_groups |-> card_groups[c]],
                        group, group.set)
        IN  /\ ~r.raised
            /\ card_groups' = [card_groups EXCEPT ![c] = r.card_groups]
            /\ result' = [op |-> "append", value |-> Outcome(r.raised)]
    /\ UNCHANGED <<component, count, always_leads, scheme_set_name, rules_config,
                   search_vars, file_vars>>

\* next_game_component counting down the count of the component it returns.
NextGameComponent_counts_down ==
    /\ result' = [op |-> "next", value |-> next_game_component]
    /\ count' = IF next_game_component = "False"
                THEN count
                ELSE [count EXCEPT ![next_game_component] = @ - 1]
    /\ UNCHANGED <<component, card_groups, always_leads, scheme_set_name,
                   rules_config, search_vars, file_vars>>

\* game_config.next_game_component()
NextGameComponent ==
    /\ result' = [op |-> "next", value |-> next_game_component]
    /\ UNCHANGED <<component, config_vars>>

\* The values a rules function can return to a validation that calls it; a
\* function that is not called is recorded as None (False for
\* scheme_blacklisted). Whether a function is called does not depend on what it
\* would return, so the calls are read off a validation given None and False.
Returns(function, values, nothing, required) ==
    IF function \in validate(required, None, FALSE).calls THEN values ELSE {nothing}

\* game_config.validate(), whatever the rules files of the scheme's set hold.
\* The call is recorded with what the rules functions returned to it.
\* validate changes nothing of the configuration, so a caller validates a
\* configuration once (under every return of the rules functions) and not
\* again right after a validation.
Validate ==
    /\ result.op # "validate"
    /\ \E required \in Returns("required", RuleSets, None, None),
          blacklisted \in Returns("scheme_blacklisted", BOOLEAN, FALSE, None) :
        \E exclusive \in Returns("exclusive", RuleSets, None, required) :
            result' = [op |-> "validate",
                       value |-> validate(required, exclusive, blacklisted).value,
                       required |-> required, exclusive |-> exclusive,
                       blacklisted |-> blacklisted]
    /\ UNCHANGED <<component, config_vars>>

\* Building a configuration and asking what it needs next.
Next == ConfigAppend \/ NextGameComponent

Spec == Init /\ [][Next]_vars

\* Building a configuration and validating it, at component borders or not.
NextValidate == ConfigAppend \/ Validate

SpecValidate == Init /\ [][NextValidate]_vars

\* --------------------------- the rule checks of a component (SpecCheck)

\* The card groups the rule checks are exercised with.
CheckCardGroups == [set : PACKAGED_LEGENDARY_SETS, value : 1..MaxRuleValue]

\* What rules.required and rules.exclusive can return here: None, or a
\* non-empty set of card groups of the scheme's legendary set.
CheckRuleSets ==
    {None} \cup
    {SomeGroups({[set |-> scheme_set_name, value |-> v] : v \in values}) :
        values \in (SUBSET (1..MaxRuleValue)) \ {{}}}

\* Python's True and False.
Bool(b) == IF b THEN "True" ELSE "False"

\* A GameConfiguration whose scheme leaves at most one component with a
\* count above 0: a rule check reads one component only.
InitCheck ==
    /\ count \in {counts \in [ComponentNames -> 0..MaxCount] :
                     \A c, d \in ComponentNames :
                         (counts[c] > 0 /\ counts[d] > 0) => c = d}
    /\ card_groups = [c \in ComponentNames |-> << >>]
    /\ always_leads = TRUE
    /\ scheme_set_name \in PACKAGED_LEGENDARY_SETS
    /\ rules_config = NoRules
    /\ NoSearch
    /\ component = NewComponent("masterminds", 0)
    /\ result = NoCall

\* component.append(card_group, legendary_set.__name__), as ConfigAppend.
CheckAppend ==
    /\ \E c \in ComponentNames, group \in CheckCardGroups :
        LET r == append([count |-> count[c], card_groups |-> card_groups[c]],
                        group, group.set)
        IN  /\ ~r.raised
            /\ card_groups' = [card_groups EXCEPT ![c] = r.card_groups]
            /\ result' = [op |-> "append", value |-> Outcome(r.raised)]
    /\ UNCHANGED <<component, count, always_leads, scheme_set_name, rules_config,
                   search_vars, file_vars>>

\* game_config._check_required(component), as test_check_required_not_met
\* calls it, whatever rules.required returns.
CheckRequired ==
    /\ \E c \in ComponentNames, required \in CheckRuleSets :
        result' = [op |-> "_check_required", component |-> c, rule |-> required,
                   value |-> Bool(_check_required(c, required))]
    /\ UNCHANGED <<component, config_vars>>

\* game_config._check_exclusive(component), whatever rules.exclusive returns.
CheckExclusive ==
    /\ \E c \in ComponentNames, exclusive \in CheckRuleSets :
        result' = [op |-> "_check_exclusive", component |-> c, rule |-> exclusive,
                   value |-> Bool(_check_exclusive(c, exclusive))]
    /\ UNCHANGED <<component, config_vars>>

NextCheck == CheckAppend \/ CheckRequired \/ CheckExclusive

SpecCheck == InitCheck /\ [][NextCheck]_vars

\* ------------------------------------------ the rules module (SpecRules)

\* str(scheme.value), str(player_count): the keys of a JSON object are strings.
str(n) == <<"1", "2", "3", "4", "5", "6", "7", "8", "9">>[n]

\* The values of the Schemes and Masterminds enumerations of the scheme's set.
SchemeValues == 1..MaxRuleValue

\* The card classes the rules files name here, and the one asked for.
RuleClasses == {"masterminds", "henchmen"}

\* A "diff" of a rules file.
Diffs == (0 - MaxCount)..MaxCount

\* The "scheme_rules" sections of a rules file that say something under key:
\* one scheme, one card class, and there the key or something else.
SchemeRules(key, values) ==
    {str(s) :> (c :> e) :
        s \in SchemeValues, c \in RuleClasses,
        e \in {[something |-> "else"]} \cup {key :> v : v \in values}}

\* A rules file without the section, or with one of the given sections.
Section(name, sections) == {<< >>} \cup {name :> section : section \in sections}

\* The "player_counts" sections: no player count, or player count 1 with the
\* count of one card class.
PlayerCounts ==
    {<< >>} \cup {"1" :> (c :> n) : c \in RuleClasses, n \in 0..MaxCount}

\* Rules files that set counts.
CountConfigs ==
    {[base |-> player_counts @@ base_scheme_rules, house |-> house_scheme_rules] :
        player_counts \in Section("player_counts", PlayerCounts),
        base_scheme_rules \in Section("scheme_rules", SchemeRules("diff", Diffs)),
        house_scheme_rules \in Section("scheme_rules", SchemeRules("diff", Diffs))}

\* What a rules function does: it returns a value or raises KeyError.
Return(value) == [error |-> "", value |-> value]

KeyError == [error |-> "KeyError", value |-> 0]

\* The "diff" of a layer for the scheme and the card class, 0 where the
\* nested "in" tests of _abstract_counts find none; the layer has a
\* "scheme_rules" section.
LayerDiff(rules, scheme, card_class) ==
    IF str(scheme) \in DOMAIN rules.scheme_rules
    THEN IF card_class \in DOMAIN rules.scheme_rules[str(scheme)]
         THEN IF "diff" \in DOMAIN rules.scheme_rules[str(scheme)][card_class]
              THEN rules.scheme_rules[str(scheme)][card_class].diff
              ELSE 0
         ELSE 0
    ELSE 0

\* _abstract_counts starting from 0 where the base rules have no count for
\* the player count and the card class.
_abstract_counts_default_zero(scheme, player_count, card_class) ==
    LET base_rules == rules_config.base
        house_rules == rules_config.house
        base_count ==
            IF \/ "player_counts" \notin DOMAIN base_rules
               \/ str(player_count) \notin DOMAIN base_rules.player_counts
               \/ card_class \notin DOMAIN base_rules.player_counts[str(player_count)]
            THEN 0
            ELSE base_rules.player_counts[str(player_count)][card_class]
    IN  IF "scheme_rules" \notin DOMAIN base_rules
        THEN KeyError
        ELSE Return(base_count
                    + LayerDiff(base_rules, scheme, card_class)
                    + (IF "scheme_rules" \in DOMAIN house_rules
                       THEN LayerDiff(house_rules, scheme, card_class)
                       ELSE 0))

\* rules._abstract_counts, the rules of the scheme's set being loaded. The
\* subscripts on the base rules raise KeyError for a missing key, that of
\* "scheme_rules" included; the house rules are asked for "scheme_rules".
_abstract_counts(scheme, player_count, card_class) ==
    LET base_rules == rules_config.base
        house_rules == rules_config.house
    IN  IF \/ "player_counts" \notin DOMAIN base_rules
           \/ str(player_count) \notin DOMAIN base_rules.player_counts
           \/ card_class \notin DOMAIN base_rules.player_counts[str(player_count)]
        THEN KeyError
        ELSE IF "scheme_rules" \notin DOMAIN base_rules
        THEN KeyError
        ELSE Return(base_rules.player_counts[str(player_count)][card_class]
                    + LayerDiff(base_rules, scheme, card_class)
                    + (IF "scheme_rules" \in DOMAIN house_rules
                       THEN LayerDiff(house_rules, scheme, card_class)
                       ELSE 0))

\* Rules files that blacklist schemes: no player count, or a list for player
\* count 1. The indices of a list are values of the Schemes enumeration
\* (Schemes(scheme_index) raises ValueError for any other), and a list is
\* read for what it holds only, so it is a set here.
BlacklistConfigs ==
    {[base |-> base_rules, house |-> house_rules] :
        base_rules, house_rules \in
            Section("blacklisted_schemes",
                    {<< >>} \cup {"1" :> list : list \in SUBSET SchemeValues})}

\* The schemes one layer blacklists for the player count.
Blacklisted(config, player_count) ==
    IF "blacklisted_schemes" \in DOMAIN config
    THEN IF str(player_count) \in DOMAIN config.blacklisted_schemes
         THEN config.blacklisted_schemes[str(player_count)]
         ELSE {}
    ELSE {}

\* scheme_blacklisted with the list of the house rules taking the place of
\* the list of the base rules.
scheme_blacklisted_house_overrides(scheme, player_count) ==
    IF /\ "blacklisted_schemes" \in DOMAIN rules_config.house
       /\ str(player_count) \in DOMAIN rules_config.house.blacklisted_schemes
    THEN scheme \in Blacklisted(rules_config.house, player_count)
    ELSE scheme \in Blacklisted(rules_config.base, player_count)

\* rules.scheme_blacklisted: the lists of both layers are appended to one
\* list.
scheme_blacklisted(scheme, player_count) ==
    scheme \in (Blacklisted(rules_config.base, player_count)
                \cup Blacklisted(rules_config.house, player_count))

\* Rules files that name required (key "required") or exclusive (key
\* "exclusive") card groups; the indices are values of the Masterminds
\* enumeration, and a list may be empty.
ListConfigs(key) ==
    {[base |-> base_rules, house |-> house_rules] :
        base_rules, house_rules \in
            Section("scheme_rules", SchemeRules(key, SUBSET SchemeValues))}

\* Whether a layer has the list of the key for the scheme's masterminds: the
\* four nested "in" tests of required_masterminds.
HasList(config, scheme, key) ==
    IF "scheme_rules" \in DOMAIN config
    THEN IF str(scheme) \in DOMAIN config.scheme_rules
         THEN IF "masterminds" \in DOMAIN config.scheme_rules[str(scheme)]
              THEN key \in DOMAIN config.scheme_rules[str(scheme)]["masterminds"]
              ELSE FALSE
         ELSE FALSE
    ELSE FALSE

\* scheme_package.Masterminds(mastermind_index) for each index of the list.
Masterminds(config, scheme, key) ==
    {[set |-> scheme_set_name, value |-> mastermind_index] :
        mastermind_index \in config.scheme_rules[str(scheme)]["masterminds"][key]}

\* "None if len(required) == 0 else required".
NoneIfEmpty(groups) == IF groups = {} THEN None ELSE SomeGroups(groups)

\* required_masterminds adding the house rules' list to the base rules' one.
required_masterminds_union(scheme) ==
    NoneIfEmpty(
        (IF HasList(rules_config.base, scheme, "required")
         THEN Masterminds(rules_config.base, scheme, "required") ELSE {})
        \cup
        (IF HasList(rules_config.house, scheme, "required")
         THEN Masterminds(rules_config.house, scheme, "required") ELSE {}))

\* required_masterminds returning the set as it is, empty or not.
required_masterminds_empty_set(scheme) ==
    SomeGroups(
        IF HasList(rules_config.house, scheme, "required")
        THEN Masterminds(rules_config.house, scheme, "required")
        ELSE IF HasList(rules_config.base, scheme, "required")
        THEN Masterminds(rules_config.base, scheme, "required")
        ELSE {})

\* rules.required_masterminds: the set starts empty, takes the base rules'
\* list, and is emptied and refilled from the house rules' list when the
\* house rules have one.
required_masterminds(scheme) ==
    LET base_required ==
            IF HasList(rules_config.base, scheme, "required")
            THEN Masterminds(rules_config.base, scheme, "required")
            ELSE {}
        required ==
            IF HasList(rules_config.house, scheme, "required")
            THEN Masterminds(rules_config.house, scheme, "required")
            ELSE base_required
    IN  NoneIfEmpty(required)

\* rules.exclusive_masterminds: as required_masterminds, for "exclusive".
exclusive_masterminds(scheme) ==
    LET base_exclusive ==
            IF HasList(rules_config.base, scheme, "exclusive")
            THEN Masterminds(rules_config.base, scheme, "exclusive")
            ELSE {}
        exclusive ==
            IF HasList(rules_config.house, scheme, "exclusive")
            THEN Masterminds(rules_config.house, scheme, "exclusive")
            ELSE base_exclusive
    IN  NoneIfEmpty(exclusive)

\* No configuration is under construction while the rules are asked; the
\* rules files hold one kind of rule at a time.
InitRules ==
    /\ rules_config \in
           CountConfigs \cup BlacklistConfigs
           \cup ListConfigs("required") \cup ListConfigs("exclusive")
    /\ count = [c \in ComponentNames |-> 0]
    /\ card_groups = [c \in ComponentNames |-> << >>]
    /\ always_leads = TRUE
    /\ scheme_set_name = "buffy"
    /\ component = NewComponent("masterminds", 0)
    /\ NoSearch
    /\ result = NoCall

\* rules.masterminds_count(scheme, scheme_package, 1), which is
\* _abstract_counts(scheme, scheme_package, 1, "masterminds").
MastermindsCount ==
    /\ \E scheme \in SchemeValues :
        LET r == _abstract_counts(scheme, 1, "masterminds")
        IN  result' = [op |-> "_abstract_counts", scheme |-> scheme,
                       error |-> r.error, value |-> r.value]
    /\ UNCHANGED <<component, config_vars>>

\* rules.scheme_blacklisted(scheme, scheme_package, 1)
SchemeBlacklisted ==
    /\ \E scheme \in SchemeValues :
        result' = [op |-> "scheme_blacklisted", scheme |-> scheme, error |-> "",
                   value |-> Bool(scheme_blacklisted(scheme, 1))]
    /\ UNCHANGED <<component, config_vars>>

\* rules.required_masterminds(scheme, scheme_package)
RequiredMasterminds ==
    /\ \E scheme \in SchemeValues :
        result' = [op |-> "masterminds", key |-> "required", scheme |-> scheme,
                   error |-> "", value |-> required_masterminds(scheme)]
    /\ UNCHANGED <<component, config_vars>>

\* rules.exclusive_masterminds(scheme, scheme_package)
ExclusiveMasterminds ==
    /\ \E scheme \in SchemeValues :
        result' = [op |-> "masterminds", key |-> "exclusive", scheme |-> scheme,
                   error |-> "", value |-> exclusive_masterminds(scheme)]
    /\ UNCHANGED <<component, config_vars>>

NextRules ==
    MastermindsCount \/ SchemeBlacklisted \/ RequiredMasterminds \/ ExclusiveMasterminds

SpecRules == InitRules /\ [][NextRules]_vars

\* ------------------------- constructing a configuration (SpecConstruct)

\* The counts of player count 1 in the base rules: one for each of the five
\* components, or for all but one of them.
ConstructCounts ==
    LET all == {counts \in [ComponentNames -> 0..MaxCount] : Total(counts) <= MaxTotal}
    IN  all \cup {[c \in ComponentNames \ {missing} |-> counts[c]] :
                     counts \in all, missing \in ComponentNames}

\* Rules files to construct configurations from: the base rules have the
\* counts and an empty "scheme_rules" section, the house rules a diff or
\* nothing.
ConstructConfigs ==
    {[base |-> [player_counts |-> "1" :> counts, scheme_rules |-> << >>],
      house |-> house_rules] :
        counts \in ConstructCounts,
        house_rules \in Section("scheme_rules", SchemeRules("diff", Diffs))}

InitConstruct ==
    /\ rules_config \in ConstructConfigs
    /\ count = [c \in ComponentNames |-> 0]
    /\ card_groups = [c \in ComponentNames |-> << >>]
    /\ always_leads = TRUE
    /\ scheme_set_name = "buffy"
    /\ component = NewComponent("masterminds", 0)
    /\ NoSearch
    /\ result = NoCall

\* GameConfiguration(scheme, scheme_set_name) with the defaults always_leads
\* = True and player_count = 1: the count of each component is asked of the
\* rules (masterminds, then the villain deck's three, then enforcers), and a
\* KeyError of any of the calls leaves no configuration behind. rules.py has
\* no count function in this revision; its count functions are those that
\* return _abstract_counts(scheme, scheme_package, player_count, card_class).
Construct ==
    \E scheme \in SchemeValues :
        LET counts == [c \in ComponentNames |-> _abstract_counts(scheme, 1, c)]
        IN  IF \E c \in ComponentNames : counts[c].error # ""
            THEN /\ result' = [op |-> "GameConfiguration", scheme |-> scheme,
                               error |-> "KeyError", value |-> 0]
                 /\ UNCHANGED <<component, config_vars>>
            ELSE /\ count' = [c \in ComponentNames |-> counts[c].value]
                 /\ card_groups' = [c \in ComponentNames |-> << >>]
                 /\ always_leads' = TRUE
                 /\ result' = [op |-> "GameConfiguration", scheme |-> scheme,
                               error |-> "", value |-> 0]
                 /\ UNCHANGED <<component, scheme_set_name, rules_config, search_vars,
                              file_vars>>

NextConstruct == Construct \/ MastermindsCount

SpecConstruct == InitConstruct /\ [][NextConstruct]_vars

\* ------------------------------- equality of components (SpecComponentEq)

\* The card_class each component is constructed with, by its card_class_use:
\* the enforcers are Villains, the heroes in the villain deck are Heroes.
card_class(card_class_use) ==
    CASE card_class_use = "masterminds" -> "Masterminds"
      [] card_class_use = "villains" -> "Villains"
      [] card_class_use = "henchmen" -> "Henchmen"
      [] card_class_use = "heroes_in_villain_deck" -> "Heroes"
      [] card_class_use = "enforcers" -> "Villains"

CardClasses == {card_class(use) : use \in ComponentNames}

\* A Python dictionary keeps its items in the order the keys were inserted.
\* The dictionaries with the keys and packages of card_groups, one for every
\* order of appends that builds it.
InsertionOrders(groups) ==
    LET n == Cardinality(DOMAIN groups)
    IN  {[i \in 1..n |-> [key |-> order[i], value |-> groups[order[i]]]] :
            order \in {o \in [1..n -> DOMAIN groups] :
                          \A i, j \in 1..n : o[i] = o[j] => i = j}}

\* dict.keys(): a set-like view, compared as a set.
keys(items) == {items[i].key : i \in DOMAIN items}

\* A ConfigurationComponent object.
Component(use, n, items) ==
    [type |-> "ConfigurationComponent", card_class |-> card_class(use),
     card_class_use |-> use, count |-> n, card_groups |-> items]

\* A value that is no object of the package, as the "foobar" of the tests.
Foobar == [type |-> "str"]

\* The dictionary as a function from its keys to their packages.
Packages(items) ==
    [g \in keys(items) |->
        (CHOOSE item \in {items[i] : i \in DOMAIN items} : item.key = g).value]

\* del items[key].
Without(items, key) == SelectSeq(items, LAMBDA item : item.key # key)

\* The dictionaries a component's dictionary is compared with: the same keys
\* in every insertion order, with the same packages or with one package for
\* all; one key more; one key less.
OtherDicts(items) ==
    UNION {InsertionOrders(groups) :
              groups \in {Packages(items)}
                  \cup {[g \in keys(items) |-> package] :
                            package \in PACKAGED_LEGENDARY_SETS}}
    \cup {Append(items, [key |-> new, value |-> new.set]) :
              new \in CardGroups \ keys(items)}
    \cup {Without(items, gone) : gone \in keys(items)}

\* The values a component is compared with: components that differ from it in
\* at most one attribute, and a value that is no component.
OtherComponents(self) ==
    {[self EXCEPT !.card_class = class] : class \in CardClasses}
    \cup {[self EXCEPT !.card_class_use = use] : use \in ComponentNames}
    \cup {[self EXCEPT !.count = n] : n \in 0..MaxCount}
    \cup {[self EXCEPT !.card_groups = items] : items \in OtherDicts(self.card_groups)}
    \cup {Foobar}

\* ConfigurationComponent.__eq__ comparing the dictionaries, keys and packages.
ConfigurationComponent__eq__packages(self, other) ==
    IF other.type = "ConfigurationComponent"
    THEN IF \/ self.card_class # other.card_class
            \/ self.card_class_use # other.card_class_use
            \/ self.count # other.count
         THEN "False"
         ELSE Bool({self.card_groups[i] : i \in DOMAIN self.card_groups}
                   = {other.card_groups[i] : i \in DOMAIN other.card_groups})
    ELSE "NotImplemented"

\* ConfigurationComponent.__eq__.
ConfigurationComponent__eq__(self, other) ==
    IF other.type = "ConfigurationComponent"
    THEN IF \/ self.card_class # other.card_class
            \/ self.card_class_use # other.card_class_use
            \/ self.count # other.count
         THEN "False"
         ELSE Bool(keys(self.card_groups) = keys(other.card_groups))
    ELSE "NotImplemented"

\* comp.append(card_group, legendary_set.__name__) as the configuration is
\* filled: the package is the card group's own legendary set and the call
\* returns.
ComponentFill ==
    /\ \E group \in CardGroups :
        LET r == append(component, group, group.set)
        IN  /\ ~r.raised
            /\ component' = [component EXCEPT !.card_groups = r.card_groups]
            /\ result' = [op |-> "append", group |-> group, package |-> group.set,
                          value |-> Outcome(r.raised)]
    /\ UNCHANGED config_vars

\* comp.__eq__(other), comp having been filled in any order.
ComponentEq ==
    /\ \E items \in InsertionOrders(component.card_groups) :
        LET self == Component(component.card_class_use, component.count, items)
        IN  \E other \in OtherComponents(self) :
                result' = [op |-> "__eq__", self |-> self, other |-> other,
                           value |-> ConfigurationComponent__eq__(self, other)]
    /\ UNCHANGED <<component, config_vars>>

NextComponentEq == ComponentFill \/ ComponentEq

SpecComponentEq == InitComponent /\ [][NextComponentEq]_vars

\* --------------------------- equality and hash of configurations (SpecEq)

\* The members of the Schemes enumerations of the legendary sets.
Schemes == [set : PACKAGED_LEGENDARY_SETS, value : 1..MaxValue]

\* The player_count a GameConfiguration is constructed with by default.
DefaultPlayerCount == 1

\* A VillainDeck object.
VillainDeckObject(villains, henchmen, heroes_in_villain_deck) ==
    [type |-> "VillainDeck", villains |-> villains, henchmen |-> henchmen,
     heroes_in_villain_deck |-> heroes_in_villain_deck]

\* A GameConfiguration object: what its properties return.
GameConfigurationObject(scheme, leads, player_count, masterminds, villain_deck, enforcers) ==
    [type |-> "GameConfiguration", scheme |-> scheme, always_leads |-> leads,
     player_count |-> player_count, masterminds |-> masterminds,
     villain_deck |-> villain_deck, enforcers |-> enforcers]

\* The component of a configuration by its card_class_use.
component_of(config, use) ==
    CASE use = "masterminds" -> config.masterminds
      [] use = "villains" -> config.villain_deck.villains
      [] use = "henchmen" -> config.villain_deck.henchmen
      [] use = "heroes_in_villain_deck" -> config.villain_deck.heroes_in_villain_deck
      [] use = "enforcers" -> config.enforcers

\* The configuration with another object as one of its components.
WithComponent(config, use, comp) ==
    CASE use = "masterminds" -> [config EXCEPT !.masterminds = comp]
      [] use = "villains" -> [config EXCEPT !.villain_deck.villains = comp]
      [] use = "henchmen" -> [config EXCEPT !.villain_deck.henchmen = comp]
      [] use = "heroes_in_villain_deck" ->
             [config EXCEPT !.villain_deck.heroes_in_villain_deck = comp]
      [] use = "enforcers" -> [config EXCEPT !.enforcers = comp]

\* VillainDeck.__eq__.
VillainDeck__eq__(self, other) ==
    IF other.type = "VillainDeck"
    THEN IF ConfigurationComponent__eq__(self.villains, other.villains) # "True"
         THEN "False"
         ELSE IF ConfigurationComponent__eq__(self.henchmen, other.henchmen) # "True"
         THEN "False"
         ELSE IF ConfigurationComponent__eq__(self.heroes_in_villain_deck,
                                              other.heroes_in_villain_deck) # "True"
         THEN "False"
         ELSE "True"
    ELSE "NotImplemented"

\* sorted(card_groups, key=lambda elem: elem.value): the keys of the
\* dictionary by their enumerated value; the sort is stable, keys of the same
\* value stay in their insertion order.
sorted(items) ==
    LET n == Len(items)
        before(i, j) ==
            \/ items[i].key.value < items[j].key.value
            \/ items[i].key.value = items[j].key.value /\ i < j
        rank(i) == Cardinality({j \in 1..n : before(j, i)}) + 1
    IN  [k \in 1..n |-> items[CHOOSE i \in 1..n : rank(i) = k].key]

\* GameConfiguration.__hash__: the tuple that is hashed. hash_list is assigned
\* three times, so it starts from the player count; the sorted keys of the
\* five components follow.
GameConfiguration__hash__(self) ==
    <<self.player_count>>
    \o sorted(self.masterminds.card_groups)
    \o sorted(self.villain_deck.villains.card_groups)
    \o sorted(self.villain_deck.henchmen.card_groups)
    \o sorted(self.villain_deck.heroes_in_villain_deck.card_groups)
    \o sorted(self.enforcers.card_groups)

\* GameConfiguration.__eq__ comparing what __hash__ hashes.
GameConfiguration__eq__hashed(self, other) ==
    IF other.type = "GameConfiguration"
    THEN Bool(GameConfiguration__hash__(self) = GameConfiguration__hash__(other))
    ELSE "NotImplemented"

\* GameConfiguration.__eq__: the properties in the order of dir().
GameConfiguration__eq__(self, other) ==
    IF other.type = "GameConfiguration"
    THEN IF self.always_leads # other.always_leads
         THEN "False"
         ELSE IF ConfigurationComponent__eq__(self.enforcers, other.enforcers) # "True"
         THEN "False"
         ELSE IF ConfigurationComponent__eq__(self.masterminds, other.masterminds) # "True"
         THEN "False"
         ELSE IF self.player_count # other.player_count
         THEN "False"
         ELSE IF self.scheme # other.scheme
         THEN "False"
         ELSE IF VillainDeck__eq__(self.villain_deck, other.villain_deck) # "True"
         THEN "False"
         ELSE "True"
    ELSE "NotImplemented"

\* The configuration of the state as an object, its components filled in the
\* given orders; the scheme is the first of its legendary set.
Self(masterminds, villains, henchmen, heroes_in_villain_deck, enforcers) ==
    GameConfigurationObject(
        [set |-> scheme_set_name, value |-> 1], always_leads, DefaultPlayerCount,
        Component("masterminds", count["masterminds"], masterminds),
        VillainDeckObject(
            Component("villains", count["villains"], villains),
            Component("henchmen", count["henchmen"], henchmen),
            Component("heroes_in_villain_deck", count["heroes_in_villain_deck"],
                      heroes_in_villain_deck)),
        Component("enforcers", count["enforcers"], enforcers))

\* The values a configuration is compared with: configurations that differ
\* from it in at most one attribute or in one component (one more needed, the
\* same card groups in another insertion order, one card group more where
\* the component takes more, one less), and a value that is no configuration.
OtherConfigurations(self) ==
    {[self EXCEPT !.scheme = scheme] : scheme \in Schemes}
    \cup {[self EXCEPT !.always_leads = leads] : leads \in BOOLEAN}
    \cup {[self EXCEPT !.player_count = n] :
              n \in {DefaultPlayerCount, DefaultPlayerCount + 1}}
    \cup {WithComponent(self, use,
                        [component_of(self, use) EXCEPT !.count = @ + 1]) :
              use \in ComponentNames}
    \cup UNION {{WithComponent(self, use,
                               [component_of(self, use) EXCEPT !.card_groups = items]) :
                     items \in
                         InsertionOrders(Packages(component_of(self, use).card_groups))
                         \cup {Append(component_of(self, use).card_groups,
                                       [key |-> new, value |-> new.set]) :
                                   new \in
                                       IF Len(component_of(self, use).card_groups)
                                              < component_of(self, use).count
                                       THEN CardGroups
                                                \ keys(component_of(self, use).card_groups)
                                       ELSE {}}
                         \cup {Without(component_of(self, use).card_groups, gone) :
                                   gone \in keys(component_of(self, use).card_groups)}} :
                 use \in ComponentNames}
    \cup {Foobar}

\* game_config.__eq__(other) and the hashes of the two, as a set of
\* configurations asks for them; game_config has been filled in any order.
ConfigEq ==
    /\ \E masterminds \in InsertionOrders(card_groups["masterminds"]),
          villains \in InsertionOrders(card_groups["villains"]),
          henchmen \in InsertionOrders(card_groups["henchmen"]),
          heroes_in_villain_deck \in InsertionOrders(card_groups["heroes_in_villain_deck"]),
          enforcers \in InsertionOrders(card_groups["enforcers"]) :
        LET self == Self(masterminds, villains, henchmen, heroes_in_villain_deck,
                         enforcers)
        IN  \E other \in OtherConfigurations(self) :
                result' = [op |-> "__eq__", other |-> other,
                           value |-> GameConfiguration__eq__(self, other),
                           hash |-> IF other.type = "GameConfiguration"
                                    THEN <<GameConfiguration__hash__(self),
                                           GameConfiguration__hash__(other)>>
                                    ELSE <<GameConfiguration__hash__(self)>>]
    /\ UNCHANGED <<component, config_vars>>

NextEq == ConfigAppend \/ ConfigEq

\* A configuration of one component (InitCheck), filled and compared.
SpecEq == InitCheck /\ [][NextEq]_vars

\* ------------------------------- copies of a configuration (SpecClone)

\* The names the tests and generate give the configuration and its copy.
ConfigNames == {"game_config", "new_config"}

\* The address of a dictionary that belongs to the class, shared by all its
\* instances.
ClassDict == <<"ConfigurationComponent", "_card_groups">>

\* ConfigurationComponent with _card_groups as an attribute of the class:
\* __init__ makes no dictionary.
_card_groups_of_the_class(config, use) == ClassDict

\* ConfigurationComponent.__init__, "self._card_groups = {}": every
\* component of every configuration gets a dictionary of its own.
_card_groups(config, use) == <<config, use>>

\* copy.deepcopy(game_config): what the instances hold is copied, the
\* dictionaries of the components included; what belongs to a class is not.
deepcopy(components, name) ==
    [use \in ComponentNames |->
        IF components[use] = ClassDict THEN ClassDict ELSE <<name, use>>]

\* A GameConfiguration of one component with a count above 0, as InitCheck,
\* its dictionaries on the heap.
InitClone ==
    /\ count \in {counts \in [ComponentNames -> 0..MaxCount] :
                     \A c, d \in ComponentNames :
                         (counts[c] > 0 /\ counts[d] > 0) => c = d}
    /\ card_groups = [c \in ComponentNames |-> << >>]
    /\ always_leads = TRUE
    /\ scheme_set_name \in PACKAGED_LEGENDARY_SETS
    /\ rules_config = NoRules
    /\ refs = [name \in {"game_config"} |->
                  [use \in ComponentNames |-> _card_groups(name, use)]]
    /\ heap = [address \in {_card_groups("game_config", use) : use \in ComponentNames}
                  |-> << >>]
    /\ rule_sets = << >>
    /\ to_process = << >>
    /\ final_game_configs = {}
    /\ game_config = << >>
    /\ candidates = << >>
    /\ user_data_dir = << >>
    /\ call = << >>
    /\ component = NewComponent("masterminds", 0)
    /\ result = NoCall

\* new_config = copy.deepcopy(game_config)
Clone ==
    /\ "new_config" \notin DOMAIN refs
    /\ LET copy == deepcopy(refs["game_config"], "new_config")
       IN  /\ refs' = [name \in ConfigNames |->
                          IF name = "new_config" THEN copy ELSE refs[name]]
           /\ heap' = [address \in (DOMAIN heap) \cup {copy[use] : use \in ComponentNames}
                          |-> IF address \in DOMAIN heap
                              THEN heap[address]
                              ELSE heap[refs["game_config"][address[2]]]]
    /\ result' = [op |-> "deepcopy"]
    /\ UNCHANGED <<component, count, card_groups, always_leads, scheme_set_name,
                   rules_config, rule_sets, to_process, final_game_configs,
                   game_config, candidates, file_vars>>

\* component.append(card_group, legendary_set.__name__) on a component of the
\* configuration or of its copy; the calls that return, as ConfigAppend.
CloneAppend ==
    /\ \E name \in DOMAIN refs, use \in ComponentNames, group \in CardGroups :
        LET address == refs[name][use]
            r == append([count |-> count[use], card_groups |-> heap[address]],
                        group, group.set)
        IN  /\ ~r.raised
            /\ heap' = [heap EXCEPT ![address] = r.card_groups]
            /\ result' = [op |-> "append", config |-> name, value |-> Outcome(r.raised)]
    /\ UNCHANGED <<component, count, card_groups, always_leads, scheme_set_name,
                   rules_config, refs, rule_sets, to_process, final_game_configs,
                   game_config, candidates, file_vars>>

NextClone == Clone \/ CloneAppend

SpecClone == InitClone /\ [][NextClone]_vars

\* ------------------------------------------------ generate (SpecGenerate)

\* The legendary sets generate is asked to include, in the order given.
imported_packages == <<"buffy", "big_trouble">>

\* "for legendary_set in imported_packages: for card_group in card_class":
\* the card groups of a card class in the order generate tries them.
Catalog ==
    [i \in 1..(Len(imported_packages) * MaxValue) |->
        [set |-> imported_packages[((i - 1) \div MaxValue) + 1],
         value |-> ((i - 1) % MaxValue) + 1]]

\* What the rules functions return for the scheme during one run (the rules
\* files are loaded once): here at most one rule, a required or an exclusive
\* set for one component, or the scheme blacklisted.
GenerateRuleSets ==
    {NoRuleSets, [NoRuleSets EXCEPT !.blacklisted = TRUE]}
    \cup {[NoRuleSets EXCEPT !.required[c] = groups] :
              c \in ComponentNames, groups \in RuleSets \ {None}}
    \cup {[NoRuleSets EXCEPT !.exclusive[c] = groups] :
              c \in ComponentNames, groups \in RuleSets \ {None}}

\* The component validate() hands to a check: the first that is not empty,
\* enforcers first; the scheme when all are empty.
validated_component ==
    IF DOMAIN card_groups["enforcers"] # {}
    THEN "enforcers"
    ELSE IF DOMAIN card_groups["heroes_in_villain_deck"] # {}
    THEN "heroes_in_villain_deck"
    ELSE IF DOMAIN card_groups["henchmen"] # {}
    THEN "henchmen"
    ELSE IF DOMAIN card_groups["villains"] # {}
    THEN "villains"
    ELSE IF DOMAIN card_groups["masterminds"] # {}
    THEN "masterminds"
    ELSE "scheme"

\* config.validate() during a run: the rules functions return what rule_sets
\* holds for the component they are asked about.
generate_validate ==
    IF validated_component = "scheme"
    THEN validate(None, None, rule_sets.blacklisted).value
    ELSE validate(rule_sets.required[validated_component],
                  rule_sets.exclusive[validated_component], FALSE).value

\* One scheme of one legendary set, whose counts ask for at least one card
\* group; nothing is seeded yet.
InitGenerate ==
    /\ count \in {counts \in [ComponentNames -> 0..MaxCount] :
                     Total(counts) >= 1 /\ Total(counts) <= MaxSlots}
    /\ card_groups = [c \in ComponentNames |-> << >>]
    /\ always_leads \in BOOLEAN
    /\ scheme_set_name \in PACKAGED_LEGENDARY_SETS
    /\ rules_config = NoRules
    /\ heap = << >>
    /\ refs = << >>
    /\ rule_sets \in GenerateRuleSets
    /\ to_process = << >>
    /\ final_game_configs = {}
    /\ game_config = << >>
    /\ candidates = << >>
    /\ user_data_dir = << >>
    /\ call = << >>
    /\ component = NewComponent("masterminds", 0)
    /\ result = NoCall

\* generate is running: the seed is made and no call has raised.
Running ==
    /\ result.op # "none"
    /\ result.value \notin {"ConfigurationError", "ValidationError"}

\* The seed: the configuration of the scheme goes on the work list if its
\* validation, the scheme's, passes.
Seed ==
    /\ result = NoCall
    /\ to_process' = IF generate_validate = "True" THEN <<card_groups>> ELSE << >>
    /\ result' = [op |-> "seed", value |-> generate_validate]
    /\ UNCHANGED <<component, count, card_groups, always_leads, scheme_set_name,
                   rules_config, heap, refs, rule_sets, final_game_configs,
                   game_config, candidates, file_vars>>

\* "game_config = to_process.pop()" and what it needs next; the loops over
\* the card groups of that card class start.
Pop ==
    /\ Running
    /\ candidates = << >>
    /\ to_process # << >>
    /\ UNCHANGED <<component, count, always_leads, scheme_set_name, rules_config,
                   heap, refs, rule_sets, final_game_configs, file_vars>>
    /\ card_groups' = to_process[Len(to_process)]
    /\ to_process' = SubSeq(to_process, 1, Len(to_process) - 1)
    /\ game_config' = [card_groups |-> card_groups', next |-> next_game_component']
    /\ candidates' = IF next_game_component' = "False" THEN << >> ELSE Catalog
    /\ result' = [op |-> "pop", value |-> "returned"]

\* One pass of the loops: the clone of game_config gets the card group; a
\* duplicate is tossed; inside a component the clone goes back on the work
\* list; at the border of a component it is validated, and then goes on the
\* work list, or into the final configurations when it needs nothing more.
Branch ==
    /\ Running
    /\ candidates # << >>
    /\ UNCHANGED <<component, count, always_leads, scheme_set_name, rules_config,
                   heap, refs, rule_sets, game_config, file_vars>>
    /\ candidates' = Tail(candidates)
    /\ LET card_group == Head(candidates)
           c == game_config.next
           r == append([count |-> count[c], card_groups |-> game_config.card_groups[c]],
                       card_group, card_group.set)
           step(value, process, final) ==
               /\ result' = [op |-> "branch", card_group |-> card_group, value |-> value]
               /\ to_process' = IF process THEN Append(to_process, card_groups')
                                 ELSE to_process
               /\ final_game_configs' = IF final
                                         THEN final_game_configs \cup {card_groups'}
                                         ELSE final_game_configs
       IN  /\ card_groups' = [game_config.card_groups EXCEPT ![c] = r.card_groups]
           /\ IF r.raised
              THEN step("ConfigurationError", FALSE, FALSE)
              ELSE IF Cardinality(DOMAIN r.card_groups)
                          = Cardinality(DOMAIN game_config.card_groups[c])
              THEN step("duplicate", FALSE, FALSE)
              ELSE IF next_game_component' = c
              THEN step("to_process", TRUE, FALSE)
              ELSE IF generate_validate' # "True"
              THEN step(generate_validate', FALSE, FALSE)
              ELSE IF next_game_component' # "False"
              THEN step("to_process", TRUE, FALSE)
              ELSE step("final", FALSE, TRUE)

NextGenerate == Seed \/ Pop \/ Branch

SpecGenerate == InitGenerate /\ [][NextGenerate]_vars

\* A run of generate with no rule, with the scheme blacklisted, or with one
\* rule for the masterminds: rules only cut branches of the search.
InitGenerateLive ==
    /\ InitGenerate
    /\ \A c \in ComponentNames \ {"masterminds"} :
           rule_sets.required[c] = None /\ rule_sets.exclusive[c] = None

\* generate as the interpreter runs it: a step that can be taken is taken.
SpecGenerateLive ==
    InitGenerateLive /\ [][NextGenerate]_vars /\ WF_vars(NextGenerate)

\* --------------- the rule checks on what the rules resolve (SpecResolve)

\* rules.required(scheme, scheme_package, card_class_use) as _check_required
\* calls it: for the masterminds, the required masterminds of the scheme (the
\* rules module has no function for the other card classes).
rules_required(scheme, card_class_use) ==
    CASE card_class_use = "masterminds" -> required_masterminds(scheme)

\* rules.exclusive(scheme, scheme_package, card_class_use) as _check_exclusive
\* calls it.
rules_exclusive(scheme, card_class_use) ==
    CASE card_class_use = "masterminds" -> exclusive_masterminds(scheme)

\* Rules files whose base rules have a list of the key for the masterminds of
\* some scheme; the house rules are any.
ResolveConfigs(key) ==
    {config \in ListConfigs(key) :
        \E scheme \in SchemeValues : HasList(config.base, scheme, key)}

\* A GameConfiguration whose scheme asks for masterminds only, and the rules
\* files of the scheme's set, which name required or exclusive masterminds.
InitResolve ==
    /\ rules_config \in ResolveConfigs("required") \cup ResolveConfigs("exclusive")
    /\ count = [c \in ComponentNames |-> IF c = "masterminds" THEN MaxCount ELSE 0]
    /\ card_groups = [c \in ComponentNames |-> << >>]
    /\ always_leads = TRUE
    /\ scheme_set_name = "buffy"
    /\ component = NewComponent("masterminds", 0)
    /\ NoSearch
    /\ result = NoCall

\* game_config._check_required(self._masterminds) with the rules files as
\* they are, the scheme being any of the enumeration.
ResolveRequired ==
    /\ \E scheme \in SchemeValues :
        LET rule == rules_required(scheme, "masterminds")
        IN  result' = [op |-> "_check_required", scheme |-> scheme, rule |-> rule,
                       value |-> Bool(_check_required("masterminds", rule))]
    /\ UNCHANGED <<component, config_vars>>

\* game_config._check_exclusive(self._masterminds) with the rules files as
\* they are.
ResolveExclusive ==
    /\ \E scheme \in SchemeValues :
        LET rule == rules_exclusive(scheme, "masterminds")
        IN  result' = [op |-> "_check_exclusive", scheme |-> scheme, rule |-> rule,
                       value |-> Bool(_check_exclusive("masterminds", rule))]
    /\ UNCHANGED <<component, config_vars>>

NextResolve == ConfigAppend \/ ResolveRequired \/ ResolveExclusive

SpecResolve == InitResolve /\ [][NextResolve]_vars

\* ------------------------------------------ initialize (SpecInitialize)

\* "for legendary_set in PACKAGED_LEGENDARY_SETS": the list in its order.
RestoreOrder == <<"buffy", "big_trouble">>

\* The file names of the user's data directory: the configuration file of a
\* legendary set in the sets directory, and the initialization file.
ConfigFile(legendary_set) == <<"sets", legendary_set, "config">>

InitFile == <<".initialized">>

\* What a configuration file of the user holds: nothing (there is no file),
\* the packaged default, or what the user made of it.
ConfigContents == {"absent", "default", "user"}

\* How a call on the file system ends: it returns, or it raises an OSError
\* that util turns into an InitializationError (EACCES, EPERM, for the copy
\* also ENOENT), or another OSError, which is raised again.
FileOutcomes == {"returned", "InitializationError", "OSError"}

\* No call of initialize is running; written is what the last call wrote.
Idle(written) == [at |-> "idle", i |-> 0, written |-> written]

\* initialize: "if do_check and os.path.exists(init_file): return".
initialize_skips(do_check) == do_check /\ user_data_dir.initialized

\* The loop over the legendary sets going on to the next set when
\* restore_file raised.
after_restore_file_errors_ignored(outcome) ==
    IF call.i < Len(RestoreOrder)
    THEN [at |-> "restore_file", i |-> call.i + 1]
    ELSE [at |-> "init_file", i |-> 0]

\* Where initialize is after restore_file for the set at call.i: in the loop
\* at the next set, past the loop at the write of the initialization file, or
\* out of the function when restore_file raised.
after_restore_file(outcome) ==
    IF outcome # "returned"
    THEN [at |-> "idle", i |-> 0]
    ELSE IF call.i < Len(RestoreOrder)
    THEN [at |-> "restore_file", i |-> call.i + 1]
    ELSE [at |-> "init_file", i |-> 0]

\* The user's data directory before a command runs: with or without the
\* initialization file, the configuration files in any state.
InitInitialize ==
    /\ user_data_dir \in
           [initialized : BOOLEAN,
            sets : [PACKAGED_LEGENDARY_SETS -> ConfigContents]]
    /\ call = Idle(<< >>)
    /\ component = NewComponent("masterminds", 0)
    /\ count = [c \in ComponentNames |-> 0]
    /\ card_groups = [c \in ComponentNames |-> << >>]
    /\ always_leads = TRUE
    /\ scheme_set_name = "buffy"
    /\ rules_config = NoRules
    /\ heap = << >>
    /\ refs = << >>
    /\ rule_sets = << >>
    /\ to_process = << >>
    /\ final_game_configs = {}
    /\ game_config = << >>
    /\ candidates = << >>
    /\ result = NoCall

\* What initialize and the loading of the rules leave alone.
file_frame ==
    <<component, count, card_groups, always_leads, scheme_set_name, rules_config,
      search_vars>>

\* util.initialize(do_check) up to the loop: cli calls it with the check,
\* restore --all without.
Initialize ==
    /\ call.at = "idle"
    /\ \E do_check \in BOOLEAN :
        IF initialize_skips(do_check)
        THEN /\ call' = Idle(<< >>)
             /\ result' = [op |-> "initialize", do_check |-> do_check,
                           value |-> "skipped"]
        ELSE /\ call' = [at |-> "restore_file", i |-> 1, written |-> << >>]
             /\ result' = [op |-> "initialize", do_check |-> do_check,
                           value |-> "restoring"]
    /\ UNCHANGED <<user_data_dir, file_frame>>

\* restore_file(legendary_set) in the loop of initialize: the packaged
\* default is copied over the user's file, or the call raises and initialize
\* with it.
RestoreFile ==
    /\ call.at = "restore_file"
    /\ \E outcome \in FileOutcomes :
        LET legendary_set == RestoreOrder[call.i]
            next == after_restore_file(outcome)
            copied == outcome = "returned"
        IN  /\ user_data_dir' =
                   IF copied
                   THEN [user_data_dir EXCEPT !.sets[legendary_set] = "default"]
                   ELSE user_data_dir
            /\ call' = [at |-> next.at, i |-> next.i,
                        written |-> IF copied
                                    THEN Append(call.written, ConfigFile(legendary_set))
                                    ELSE call.written]
            /\ result' = [op |-> "restore_file", legendary_set |-> legendary_set,
                          value |-> outcome]
    /\ UNCHANGED file_frame

\* "with open(init_file, "w") as init_ref: init_ref.write(INITIALIZATION)".
\* An OSError that is no permission error can come from the write, when open
\* has already made the file.
WriteInitFile ==
    /\ call.at = "init_file"
    /\ \E outcome \in FileOutcomes, opened \in BOOLEAN :
        LET made == outcome = "returned" \/ (outcome = "OSError" /\ opened)
        IN  /\ outcome = "returned" => opened
            /\ outcome = "InitializationError" => ~opened
            /\ user_data_dir' =
                   [user_data_dir EXCEPT !.initialized = made \/ user_data_dir.initialized]
            /\ call' = Idle(IF made THEN Append(call.written, InitFile)
                            ELSE call.written)
            /\ result' = [op |-> "init_file", opened |-> opened, value |-> outcome]
    /\ UNCHANGED file_frame

NextInitialize == Initialize \/ RestoreFile \/ WriteInitFile

SpecInitialize == InitInitialize /\ [][NextInitialize]_vars

\* ------------------------------------- loading the rules files (SpecLoad)

RulesTypes == {"base", "house"}

\* What a rules file "{set}.{rules_type}.rules.json" of the user's data
\* directory holds: there is no file, the text json.dump writes for the
\* default rules, rules a user has written, the JSON text null, or no JSON.
RulesFiles == {"absent", "dumped default", "user", "null", "garbage"}

\* json.load and json.loads: the value of a JSON text, JSONDecodeError when
\* the text is no JSON. The packaged DEFAULT_{TYPE}_RULES_CONFIG text and the
\* text json.dump writes for it differ in their white space and have the same
\* value.
json_load(text) ==
    CASE text = "DEFAULT_RULES_CONFIG" -> "default rules"
      [] text = "dumped default" -> "default rules"
      [] text = "user" -> "user rules"
      [] text = "null" -> "None"
      [] text = "garbage" -> "JSONDecodeError"

\* json.dump: the text written for a rules configuration.
json_dump(value) ==
    CASE value = "default rules" -> "dumped default"
      [] value = "user rules" -> "user"
      [] value = "None" -> "null"

\* _load_rules_configuration reading the file whatever is loaded.
already_loaded_never(rules_type) == FALSE

\* _load_rules_configuration: "if getattr(set_package,
\* "get_{}_rules_config".format(rules_type))() is not None".
already_loaded(rules_type) == rules_config[rules_type] # "None"

\* A process starts: nothing is loaded for the set, and its rules files are
\* in any state.
InitLoad ==
    /\ user_data_dir \in [rules : [RulesTypes -> RulesFiles]]
    /\ call = << >>
    /\ rules_config = [rules_type \in RulesTypes |-> "None"]
    /\ scheme_set_name \in PACKAGED_LEGENDARY_SETS
    /\ component = NewComponent("masterminds", 0)
    /\ count = [c \in ComponentNames |-> 0]
    /\ card_groups = [c \in ComponentNames |-> << >>]
    /\ always_leads = TRUE
    /\ heap = << >>
    /\ refs = << >>
    /\ rule_sets = << >>
    /\ to_process = << >>
    /\ final_game_configs = {}
    /\ game_config = << >>
    /\ candidates = << >>
    /\ result = NoCall

\* What a call of _load_rules_configuration did.
Loaded(rules_type, value, read, written) ==
    [op |-> "_load_rules_configuration", rules_type |-> rules_type,
     value |-> value, read |-> read, written |-> written]

\* rules._load_rules_configuration(set_package, rules_type) for the set of
\* the scheme. os_error is the file operation that fails with an OSError
\* other than the ones the function handles, if the call comes to it; when
\* the write fails the file is not made, or is made and left without JSON.
LoadRulesConfiguration ==
    /\ \E rules_type \in RulesTypes,
          os_error \in {"none", "makedirs", "open", "dump"},
          made \in BOOLEAN :
        LET file == user_data_dir.rules[rules_type]
            default_config == json_load("DEFAULT_RULES_CONFIG")
        IN  IF already_loaded(rules_type)
            THEN /\ result' = Loaded(rules_type, "returned", FALSE, FALSE)
                 /\ UNCHANGED <<rules_config, user_data_dir>>
            ELSE IF os_error = "makedirs"
            THEN /\ result' = Loaded(rules_type, "OSError", FALSE, FALSE)
                 /\ UNCHANGED <<rules_config, user_data_dir>>
            ELSE IF file # "absent"
            THEN IF os_error = "open"
                 THEN /\ result' = Loaded(rules_type, "OSError", FALSE, FALSE)
                      /\ UNCHANGED <<rules_config, user_data_dir>>
                 ELSE IF json_load(file) = "JSONDecodeError"
                 THEN /\ result' = Loaded(rules_type, "JSONDecodeError", TRUE, FALSE)
                      /\ UNCHANGED <<rules_config, user_data_dir>>
                 ELSE /\ rules_config' =
                             [rules_config EXCEPT ![rules_type] = json_load(file)]
                      /\ result' = Loaded(rules_type, "returned", TRUE, FALSE)
                      /\ UNCHANGED user_data_dir
            ELSE /\ rules_config' =
                        [rules_config EXCEPT ![rules_type] = default_config]
                 /\ IF os_error = "dump"
                    THEN /\ user_data_dir' =
                                [user_data_dir EXCEPT !.rules[rules_type] =
                                    IF made THEN "garbage" ELSE "absent"]
                         /\ result' = Loaded(rules_type, "OSError", FALSE, made)
                    ELSE /\ user_data_dir' =
                                [user_data_dir EXCEPT !.rules[rules_type] =
                                    json_dump(default_config)]
                         /\ result' = Loaded(rules_type, "returned", FALSE, TRUE)
    /\ UNCHANGED <<call, component, count, card_groups, always_leads,
                   scheme_set_name, search_vars>>

\* The user edits, replaces or removes a rules file while the process runs.
EditRulesFile ==
    /\ \E rules_type \in RulesTypes, text \in RulesFiles :
        /\ text # user_data_dir.rules[rules_type]
        /\ user_data_dir' = [user_data_dir EXCEPT !.rules[rules_type] = text]
        /\ result' = [op |-> "edit", rules_type |-> rules_type, value |-> text]
    /\ UNCHANGED <<call, component, count, card_groups, always_leads,
                   scheme_set_name, rules_config, search_vars>>

NextLoad == LoadRulesConfiguration \/ EditRulesFile

SpecLoad == InitLoad /\ [][NextLoad]_vars

\* ------------------------------------------ asking and validating (SpecQuery)

\* A GameConfiguration of a scheme that asks for MaxCount card groups at most,
\* over all components.
InitQuery ==
    /\ count \in {counts \in [ComponentNames -> 0..MaxCount] : Total(counts) <= MaxCount}
    /\ card_groups = [c \in ComponentNames |-> << >>]
    /\ always_leads \in BOOLEAN
    /\ scheme_set_name \in PACKAGED_LEGENDARY_SETS
    /\ rules_config = NoRules
    /\ NoSearch
    /\ component = NewComponent("masterminds", 0)
    /\ result = NoCall

\* Building a configuration, asking what it needs next and validating it, in
\* any order.
NextQuery == ConfigAppend \/ NextGameComponent \/ Validate

SpecQuery == InitQuery /\ [][NextQuery]_vars

\* ------------------------------------------ building a configuration in order
\* The loop of the callers of next_game_component (the generate driver, and
\* test_next_game_component_multiples): ask for the next component and append
\* a card group to it, until next_game_component returns False.

\* What the builder has done so far: nothing yet.
NotBuilt == [op |-> "none", component |-> "False", steps |-> 0, fresh |-> TRUE]

\* component = game_config.next_game_component(), then
\* component.append(card_group, package) on the component returned; nothing is
\* appended once next_game_component returns False. The record keeps the
\* component that was appended to, how often the builder has appended, and
\* whether every card group was new to its component when it was appended
\* (appending a card group a second time replaces its package and is counted
\* once, so that the count stays finite).
BuildAppend ==
    /\ next_game_component # "False"
    /\ \E group \in CardGroups :
        LET c == next_game_component
            is_new == group \notin DOMAIN card_groups[c]
            r == append([count |-> count[c], card_groups |-> card_groups[c]],
                        group, group.set)
        IN  /\ card_groups' = [card_groups EXCEPT ![c] = r.card_groups]
            /\ result' = [op        |-> "append",
                          component |-> c,
                          steps     |-> IF is_new THEN result.steps + 1
                                        ELSE result.steps,
                          fresh     |-> result.fresh /\ is_new,
                          value     |-> Outcome(r.raised)]
    /\ UNCHANGED <<component, count, always_leads, scheme_set_name, rules_config,
                   search_vars, file_vars>>

InitBuild ==
    /\ count \in {counts \in [ComponentNames -> 0..MaxCount] : Total(counts) <= MaxTotal}
    /\ card_groups = [c \in ComponentNames |-> << >>]
    /\ always_leads \in BOOLEAN
    /\ scheme_set_name \in PACKAGED_LEGENDARY_SETS
    /\ rules_config = NoRules
    /\ NoSearch
    /\ component = NewComponent("masterminds", 0)
    /\ result = NotBuilt

NextBuild == BuildAppend

SpecBuild == InitBuild /\ [][NextBuild]_vars

\* ------------------------------------------ claims about append (C1 - C4)

Members(comp) == DOMAIN comp.card_groups

\* C1: in every reachable state of a ConfigurationComponent, failed appends
\* caught by the caller included, the number of members is at most the
\* component's count.
C1_MembersNeverExceedCount ==
    Cardinality(Members(component)) <= component.count

\* C2: an append of a card group not yet present to a component that holds
\* count members fails, and the members after the failed call are those
\* before it.
C2_FailedAppendChangesNothing ==
    [][(/\ result'.group \notin Members(component)
        /\ Cardinality(Members(component)) = component.count)
       => (/\ result'.value = "ConfigurationError"
           /\ component'.card_groups = component.card_groups)]_vars

\* C3: append raises ConfigurationError exactly when the card group is not
\* already a member and the component already holds (at least) count members;
\* in every other case it does not raise.
C3_RaisesExactlyWhenNewAndFull ==
    [][(result'.value = "ConfigurationError")
       <=> (/\ result'.group \notin Members(component)
            /\ Cardinality(Members(component)) >= component.count)]_vars

\* C4: appending a card group that is already a member, with any source set,
\* leaves the mapping from card groups to source sets unchanged and does not
\* raise, even when the component is full.
C4_AppendOfMemberIsNoOp ==
    [][(result'.group \in Members(component))
       => (/\ component'.card_groups = component.card_groups
           /\ result'.value = "returned")]_vars

\* ------------------------------- claims about next_game_component (C5 - C7)

\* The order C5 states: Masterminds, Villains, Henchmen, HeroesInVillainDeck,
\* Enforcers.
C5_Order ==
    <<"masterminds", "villains", "henchmen", "heroes_in_villain_deck", "enforcers">>

C5_Incomplete ==
    {i \in DOMAIN C5_Order : Size(C5_Order[i]) < count[C5_Order[i]]}

C5_FirstIncomplete ==
    IF C5_Incomplete = {}
    THEN "False"
    ELSE C5_Order[CHOOSE i \in C5_Incomplete : \A j \in C5_Incomplete : i <= j]

C6_ZeroCountNeverNext ==
    result.op = "next" =>
        /\ \A c \in ComponentNames : count[c] = 0 => result.value # c
        /\ (\A c \in ComponentNames : count[c] = 0) => result.value = "False"

\* C6 witness: the masterminds count is 0 and a later component is returned.
C6_Witness ==
    /\ result.op = "next"
    /\ count["masterminds"] = 0
    /\ result.value \in ComponentNames

\* C7: once a component has reached its count it stays so, and no later
\* state has it returned by next_game_component().
C7_CompleteNeverNextAgain ==
    [][\A c \in ComponentNames :
          Size(c) >= count[c] =>
              /\ Size(c)' >= count'[c]
              /\ next_game_component' # c
              /\ (result'.op = "next" => result'.value # c)]_vars

\* C7 witness: masterminds reached its count, card groups were appended to
\* villains after that, and next_game_component() was asked again.
C7_Witness ==
    /\ count["masterminds"] > 0
    /\ Size("masterminds") = count["masterminds"]
    /\ Size("villains") > 0
    /\ result.op = "next"

\* ------------------------------------------ claims about validate (C8 - C10)

\* The order C8 states: enforcers, heroesInVillainDeck, henchmen, villains,
\* masterminds.
C8_Order ==
    <<"enforcers", "heroes_in_villain_deck", "henchmen", "villains", "masterminds">>

C8_NonEmpty == {i \in DOMAIN C8_Order : DOMAIN card_groups[C8_Order[i]] # {}}

\* The component validate() is to check: the first non-empty one in C8_Order,
\* "scheme" when all five are empty.
C8_Selected ==
    IF C8_NonEmpty = {}
    THEN "scheme"
    ELSE C8_Order[CHOOSE i \in C8_NonEmpty : \A j \in C8_NonEmpty : i <= j]

C8_CheckOfSelected(required, exclusive, blacklisted) ==
    IF C8_Selected = "scheme"
    THEN IF blacklisted THEN "False" ELSE "True"
    ELSE IF C8_Selected = "villains"
    THEN _validate_villains(required, exclusive).value
    ELSE _simple_validate(C8_Selected, required, exclusive).value

\* C8: validate() gives the check result of the first non-empty component in
\* the order enforcers, heroesInVillainDeck, henchmen, villains, masterminds
\* (villains by the villain check, the others by the simple check), and of
\* the scheme (true iff it is not blacklisted) when all five are empty.
C8_ValidateChecksInnermost ==
    result.op = "validate" =>
        result.value =
            C8_CheckOfSelected(result.required, result.exclusive, result.blacklisted)

\* C8 witness: henchmen is validated while masterminds and villains hold card
\* groups too.
C8_Witness ==
    /\ result.op = "validate"
    /\ C8_Selected = "henchmen"
    /\ Size("masterminds") > 0
    /\ Size("villains") > 0
    /\ result.value \in {"True", "False"}

\* C9: whenever the component validate() selects has a member count different
\* from its count, validate() raises ValidationError, for every setting of
\* always_leads and every rule configuration.
C9_IncompleteAlwaysRaises ==
    (/\ result.op = "validate"
     /\ C8_Selected # "scheme"
     /\ Size(C8_Selected) # count[C8_Selected])
    => result.value = "ValidationError"

\* C10: when the component validate() selects is complete, validate() returns
\* true or false and never raises, whatever the rules say.
C10_CompleteNeverRaises ==
    (/\ result.op = "validate"
     /\ C8_Selected # "scheme"
     /\ Size(C8_Selected) = count[C8_Selected])
    => result.value \in {"True", "False"}

\* C10 witness: a complete component fails a required rule and validate()
\* returns false.
C10_Witness ==
    /\ result.op = "validate"
    /\ C8_Selected # "scheme"
    /\ Size(C8_Selected) = count[C8_Selected]
    /\ ~result.required.is_none
    /\ result.value = "False"

\* ------------------------------------------ the always-leads rule (C11)

\* The configured villains that share the identity of a configured mastermind
\* in that mastermind's source set.
C11_Matches ==
    {v \in DOMAIN card_groups["villains"] :
        \E m \in DOMAIN card_groups["masterminds"] :
            /\ v.value = m.value
            /\ v.set = card_groups["masterminds"][m]}

C11_K ==
    IF Size("villains") <= Size("masterminds")
    THEN Size("villains")
    ELSE Size("masterminds")

\* C11: with always_leads true, villain validation returns false when fewer
\* than k = min(|villains|, |masterminds|) of the configured villains are
\* always-leads villains, and otherwise the always-leads check passes: the
\* outcome is that of the simple validation of the villains.
C11_AlwaysLeadsNeedsK ==
    (/\ result.op = "validate"
     /\ C8_Selected = "villains"
     /\ always_leads)
    => IF Cardinality(C11_Matches) >= C11_K
       THEN result.value =
                _simple_validate("villains", result.required, result.exclusive).value
       ELSE result.value = "False"

\* C11 witness: two masterminds, one villain that one of them always leads;
\* k is 1, the check passes and the validation returns true.
C11_Witness ==
    /\ result.op = "validate"
    /\ C8_Selected = "villains"
    /\ always_leads
    /\ Size("masterminds") = 2
    /\ Size("villains") = 1
    /\ Cardinality(C11_Matches) = 1
    /\ result.value = "True"

\* ------------------------------------------ the rule checks (C12, C13)

\* C12: _check_required returns true iff the required set is None or every
\* required card group is a member of the component; members outside the
\* required set do not matter.
C12_RequiredIsSubsetOfMembers ==
    result.op = "_check_required" =>
        (result.value = "True"
         <=> (\/ result.rule.is_none
              \/ \A g \in result.rule.groups :
                     g \in DOMAIN card_groups[result.component]))

\* C12 witness: two card groups are required and the component holds one of
\* them and a card group that is not required; the check returns false.
C12_Witness ==
    /\ result.op = "_check_required"
    /\ Cardinality(result.rule.groups) = 2
    /\ Cardinality(result.rule.groups \cap DOMAIN card_groups[result.component]) = 1
    /\ DOMAIN card_groups[result.component] \ result.rule.groups # {}
    /\ result.value = "False"

\* C13: _check_exclusive returns true iff the exclusive set is None, or the
\* component has at least one member and every member is in the exclusive
\* set.
C13_MembersAreNonEmptySubset ==
    result.op = "_check_exclusive" =>
        (result.value = "True"
         <=> (\/ result.rule.is_none
              \/ /\ DOMAIN card_groups[result.component] # {}
                 /\ \A g \in DOMAIN card_groups[result.component] :
                        g \in result.rule.groups))

\* C13 witness: an exclusive set is in force and the component is empty; the
\* check returns false.
C13_Witness ==
    /\ result.op = "_check_exclusive"
    /\ ~result.rule.is_none
    /\ DOMAIN card_groups[result.component] = {}
    /\ result.value = "False"

\* ------------------------------------------ the counts (C14 - C16)

\* Whether the base rules have a count for player count 1 and masterminds.
C14_HasBaseCount ==
    /\ "player_counts" \in DOMAIN rules_config.base
    /\ "1" \in DOMAIN rules_config.base.player_counts
    /\ "masterminds" \in DOMAIN rules_config.base.player_counts["1"]

\* The diff a layer holds for the scheme and masterminds, 0 when the
\* scheme_rules section, the scheme, the component or the diff is missing.
C14_Diff(layer, scheme) ==
    IF /\ "scheme_rules" \in DOMAIN layer
       /\ str(scheme) \in DOMAIN layer.scheme_rules
       /\ "masterminds" \in DOMAIN layer.scheme_rules[str(scheme)]
       /\ "diff" \in DOMAIN layer.scheme_rules[str(scheme)]["masterminds"]
    THEN layer.scheme_rules[str(scheme)]["masterminds"].diff
    ELSE 0

C14_Sum(scheme) ==
    rules_config.base.player_counts["1"]["masterminds"]
    + C14_Diff(rules_config.base, scheme) + C14_Diff(rules_config.house, scheme)

\* C14: where the base count exists, the count is the base count plus the
\* scheme diff of the base layer plus that of the house layer, floored at 0,
\* a missing scheme_rules section, scheme, component or diff counting as 0.
C14_CountIsFlooredSum ==
    (result.op = "_abstract_counts" /\ C14_HasBaseCount)
    => /\ result.error = ""
       /\ result.value =
              IF C14_Sum(result.scheme) < 0 THEN 0 ELSE C14_Sum(result.scheme)

\* C15: the count is never negative.
C15_CountNeverNegative ==
    (result.op = "_abstract_counts" /\ result.error = "") => result.value >= 0

\* The components the base rules have no count for, at player count 1.
C16_Missing ==
    {c \in ComponentNames :
        \/ "player_counts" \notin DOMAIN rules_config.base
        \/ "1" \notin DOMAIN rules_config.base.player_counts
        \/ c \notin DOMAIN rules_config.base.player_counts["1"]}

\* C16: the count of a component the base layer has no player_counts entry
\* for fails with KeyError, whatever the house layer and the diffs hold, and
\* so does the construction of a GameConfiguration that needs that count.
C16_MissingBaseCountRaises ==
    /\ (result.op = "_abstract_counts" /\ "masterminds" \in C16_Missing)
       => result.error = "KeyError"
    /\ (result.op = "GameConfiguration" /\ C16_Missing # {})
       => result.error = "KeyError"

\* C16 witness: the base rules have the counts of all components but
\* enforcers, the house rules a diff for the scheme, and the construction
\* fails.
C16_Witness ==
    /\ result.op = "GameConfiguration"
    /\ C16_Missing = {"enforcers"}
    /\ C14_Diff(rules_config.house, result.scheme) # 0
    /\ result.error = "KeyError"

\* ------------------------------------------ the blacklist (C17)

\* Whether a layer lists the scheme under blacklisted_schemes for player
\* count 1.
C17_Listed(layer, scheme) ==
    /\ "blacklisted_schemes" \in DOMAIN layer
    /\ "1" \in DOMAIN layer.blacklisted_schemes
    /\ scheme \in layer.blacklisted_schemes["1"]

\* C17: scheme_blacklisted is true iff the scheme is listed for the player
\* count in the base layer or in the house layer; a layer without the section
\* or without the player count lists nothing, and no house list takes a
\* scheme out of the base layer's list.
C17_BlacklistedInEitherLayer ==
    result.op = "scheme_blacklisted" =>
        (result.value = "True"
         <=> (\/ C17_Listed(rules_config.base, result.scheme)
              \/ C17_Listed(rules_config.house, result.scheme)))

\* C17 witness: the base layer lists the scheme, the house layer has a list
\* for the player count without it, and the scheme is blacklisted.
C17_Witness ==
    /\ result.op = "scheme_blacklisted"
    /\ C17_Listed(rules_config.base, result.scheme)
    /\ "blacklisted_schemes" \in DOMAIN rules_config.house
    /\ "1" \in DOMAIN rules_config.house.blacklisted_schemes
    /\ ~C17_Listed(rules_config.house, result.scheme)
    /\ result.value = "True"

\* --------------------------- the required and exclusive sets (C18 - C20)

\* Whether a layer defines the list of the call's key for the call's scheme
\* and masterminds.
C18_Defines(layer) ==
    /\ "scheme_rules" \in DOMAIN layer
    /\ str(result.scheme) \in DOMAIN layer.scheme_rules
    /\ "masterminds" \in DOMAIN layer.scheme_rules[str(result.scheme)]
    /\ result.key \in DOMAIN layer.scheme_rules[str(result.scheme)]["masterminds"]

\* The indices of that list, none when the layer does not define it.
C18_List(layer) ==
    IF C18_Defines(layer)
    THEN layer.scheme_rules[str(result.scheme)]["masterminds"][result.key]
    ELSE {}

\* The indices of the set a call returned, none for None.
C18_Resolved == {g.value : g \in result.value.groups}

\* C18: when both layers define the required (exclusive) list for the scheme
\* and the component, the resolved set is the union of the two lists.
C18_BothLayersUnion ==
    (/\ result.op = "masterminds"
     /\ C18_Defines(rules_config.base)
     /\ C18_Defines(rules_config.house))
    => C18_Resolved = C18_List(rules_config.base) \cup C18_List(rules_config.house)

C20_NoneOrNonEmpty ==
    result.op = "masterminds" =>
        /\ result.value.is_none <=> result.value.groups = {}
        /\ (~C18_Defines(rules_config.base) /\ ~C18_Defines(rules_config.house))
           => result.value.is_none

\* C20 witness: the house layer defines an empty list over a non-empty base
\* list, and the call returns None.
C20_Witness ==
    /\ result.op = "masterminds"
    /\ C18_List(rules_config.base) # {}
    /\ C18_Defines(rules_config.house)
    /\ C18_List(rules_config.house) = {}
    /\ result.value.is_none

\* ------------------------------------ villain and simple validation (C27, C28, C30)

\* C27: with always_leads false, _validate_villains is _simple_validate of the
\* villains: the same result or the same ValidationError, whatever masterminds
\* are configured.
C27_AlwaysLeadsOffIsSimpleValidate ==
    (/\ result.op = "validate"
     /\ C8_Selected = "villains"
     /\ ~always_leads)
    => result.value =
           _simple_validate("villains", result.required, result.exclusive).value

\* C27 witness: always_leads is off, no configured villain is led by the
\* configured mastermind, and the villains validate.
C27_Witness ==
    /\ result.op = "validate"
    /\ C8_Selected = "villains"
    /\ ~always_leads
    /\ Size("masterminds") > 0
    /\ C11_Matches = {}
    /\ result.value = "True"

\* The complete component a validation hands to _simple_validate: any
\* component but the villains, or the villains once the "always leads" check
\* is off or has passed.
C28_SimplyValidated ==
    /\ result.op = "validate"
    /\ C8_Selected # "scheme"
    /\ Size(C8_Selected) = count[C8_Selected]
    /\ (C8_Selected = "villains" /\ always_leads) => Cardinality(C11_Matches) >= C11_K

\* C28: for a complete component _simple_validate returns true iff both
\* _check_required and _check_exclusive return true.
C28_TrueIffBothChecksPass ==
    C28_SimplyValidated =>
        (result.value = "True" <=>
            /\ _check_required(C8_Selected, result.required)
            /\ _check_exclusive(C8_Selected, result.exclusive))

\* C28 witness: the required check passes, the exclusive check fails, and the
\* validation returns false.
C28_Witness ==
    /\ C28_SimplyValidated
    /\ ~result.required.is_none
    /\ _check_required(C8_Selected, result.required)
    /\ ~_check_exclusive(C8_Selected, result.exclusive)
    /\ result.value = "False"

\* C30: in the villain validation the "always leads" check comes before the
\* required and exclusive checks (when it fails the validation returns false
\* and no rule is asked for), and the validation returns true only if the
\* "always leads" check and the required and exclusive checks all pass.
C30_AlwaysLeadsFirstThenRules ==
    (/\ result.op = "validate"
     /\ C8_Selected = "villains")
    => /\ (always_leads /\ Cardinality(C11_Matches) < C11_K)
            => /\ result.value = "False"
               /\ result.required = None
               /\ result.exclusive = None
       /\ result.value = "True"
            => /\ always_leads => Cardinality(C11_Matches) >= C11_K
               /\ _check_required("villains", result.required)
               /\ _check_exclusive("villains", result.exclusive)

\* C30 witness: the "always leads" check fails on villains that are not
\* complete yet, and the validation returns false.
C30_Witness ==
    /\ result.op = "validate"
    /\ C8_Selected = "villains"
    /\ always_leads
    /\ Cardinality(C11_Matches) < C11_K
    /\ Size("villains") < count["villains"]
    /\ result.value = "False"

\* ------------------------------------------ equality of components (C29)

\* C29: two ConfigurationComponents are equal iff they have the same card
\* class, the same card class use, the same count and the same set of member
\* card groups, whatever the insertion order and the packages stored with the
\* members; compared with a value that is no component, __eq__ gives
\* NotImplemented and raises nothing.
C29_EqualIffSameAttributesAndMembers ==
    result.op = "__eq__" =>
        IF result.other.type = "ConfigurationComponent"
        THEN result.value =
                 Bool(/\ result.other.card_class = card_class(component.card_class_use)
                      /\ result.other.card_class_use = component.card_class_use
                      /\ result.other.count = component.count
                      /\ \A g \in CardGroups :
                             (g \in DOMAIN component.card_groups)
                             <=> (\E i \in DOMAIN result.other.card_groups :
                                     result.other.card_groups[i].key = g))
        ELSE result.value = "NotImplemented"

\* C29 witness: two members inserted in opposite orders and stored with other
\* packages, and the components are equal.
C29_Witness ==
    /\ result.op = "__eq__"
    /\ result.other.type = "ConfigurationComponent"
    /\ Len(result.self.card_groups) = 2
    /\ Len(result.other.card_groups) = 2
    /\ result.self.card_groups[1].key = result.other.card_groups[2].key
    /\ result.self.card_groups[2].key = result.other.card_groups[1].key
    /\ result.self.card_groups[1].value # result.other.card_groups[2].value
    /\ result.value = "True"

\* ------------------------------- equality and hash of configurations (C21, C22)

\* C21: two GameConfigurations that are equal have the same hash, card groups
\* of different sets that share an enumerated value included.
C21_EqualHaveSameHash ==
    (/\ result.op = "__eq__"
     /\ result.other.type = "GameConfiguration"
     /\ result.value = "True")
    => result.hash[1] = result.hash[2]

\* The configuration compared with has the scheme, the always_leads, the
\* player count and, for every component, the count and the set of card
\* groups of the configuration of the state.
C22_Same ==
    /\ result.other.scheme = [set |-> scheme_set_name, value |-> 1]
    /\ result.other.always_leads = always_leads
    /\ result.other.player_count = DefaultPlayerCount
    /\ \A use \in ComponentNames :
           /\ component_of(result.other, use).count = count[use]
           /\ \A g \in CardGroups :
                  (g \in DOMAIN card_groups[use])
                  <=> (\E i \in DOMAIN component_of(result.other, use).card_groups :
                          component_of(result.other, use).card_groups[i].key = g)

\* C22: two GameConfigurations are equal iff they have the same scheme,
\* always_leads and player count and every component has the same count and
\* the same set of card groups, whatever the order of the appends; compared
\* with a value that is no GameConfiguration, __eq__ gives NotImplemented.
C22_EqualIffSame ==
    result.op = "__eq__" =>
        IF result.other.type = "GameConfiguration"
        THEN result.value = Bool(C22_Same)
        ELSE result.value = "NotImplemented"

\* C22 witness: the same two card groups appended in opposite orders (the
\* sorted keys come out in different orders), and the configurations are
\* equal.
C22_Witness ==
    /\ result.op = "__eq__"
    /\ result.other.type = "GameConfiguration"
    /\ \E use \in ComponentNames : Len(component_of(result.other, use).card_groups) = 2
    /\ result.hash[1] # result.hash[2]
    /\ result.value = "True"

\* ------------------------------------------ copies of a configuration (C25)

\* The card groups of each component of a configuration, read off the heap.
C25_Members(name, dictionaries) ==
    [use \in ComponentNames |-> dictionaries[refs[name][use]]]

\* C25: once a configuration is cloned, an append to the clone leaves the
\* card groups of the five components of the original as they were, and an
\* append to the original leaves those of the clone as they were.
C25_CloneIsolation ==
    [][(result'.op = "append" /\ "new_config" \in DOMAIN refs)
       => \A name \in ConfigNames \ {result'.config} :
              C25_Members(name, heap') = C25_Members(name, heap)]_vars

\* C25 witness: after an append to the clone, the clone holds a card group
\* the original does not.
C25_Witness ==
    /\ "new_config" \in DOMAIN refs
    /\ result.op = "append"
    /\ result.config = "new_config"
    /\ \E use \in ComponentNames :
           DOMAIN heap[refs["new_config"][use]] # DOMAIN heap[refs["game_config"][use]]

\* ------------------------------------------ generate (C23, C24, C26)

\* generate has ended: the work list is empty and nothing was raised.
C23_Ended ==
    /\ Running
    /\ to_process = << >>
    /\ candidates = << >>

\* The required check of a component of a configuration.
C23_Required(config, c) ==
    rule_sets.required[c].is_none
    \/ rule_sets.required[c].groups \subseteq DOMAIN config[c]

\* The exclusive check of a component of a configuration.
C23_Exclusive(config, c) ==
    rule_sets.exclusive[c].is_none
    \/ (/\ DOMAIN config[c] # {}
        /\ DOMAIN config[c] \subseteq rule_sets.exclusive[c].groups)

\* The "always leads" check on the villains of a configuration.
C23_AlwaysLeads(config) ==
    LET led == {v \in DOMAIN config["villains"] :
                   \E m \in DOMAIN config["masterminds"] :
                       v.value = m.value /\ v.set = config["masterminds"][m]}
    IN  always_leads =>
            Cardinality(led) >= Min(Cardinality(DOMAIN config["villains"]),
                                    Cardinality(DOMAIN config["masterminds"]))

C24_Filled(c) ==
    {[g \in groups |-> g.set] :
        groups \in {some \in SUBSET {Catalog[i] : i \in DOMAIN Catalog} :
                        Cardinality(some) = count[c]}}

\* The complete assignments: count[c] card groups of the catalog for every
\* component c.
C24_Complete ==
    [masterminds : C24_Filled("masterminds"), villains : C24_Filled("villains"),
     henchmen : C24_Filled("henchmen"),
     heroes_in_villain_deck : C24_Filled("heroes_in_villain_deck"),
     enforcers : C24_Filled("enforcers")]

\* The assignment passes the validation of the scheme and the validation at
\* the border of every component that is filled.
C24_Passes(config) ==
    /\ ~rule_sets.blacklisted
    /\ C23_AlwaysLeads(config)
    /\ \A c \in ComponentNames :
           count[c] > 0 => C23_Required(config, c) /\ C23_Exclusive(config, c)

C31_Led(m) == [set |-> card_groups["masterminds"][m], value |-> m.value]

\* C31: with always_leads true the villain validation returns true only if,
\* with at least as many villains as masterminds, the villain every configured
\* mastermind always leads is among the configured villains and, with fewer
\* villains than masterminds, every configured villain is one a configured
\* mastermind always leads.
C31_TrueOnlyIfLedVillainsConfigured ==
    (/\ result.op = "validate"
     /\ C8_Selected = "villains"
     /\ always_leads
     /\ result.value = "True")
    => IF Size("villains") >= Size("masterminds")
       THEN \A m \in DOMAIN card_groups["masterminds"] :
                C31_Led(m) \in DOMAIN card_groups["villains"]
       ELSE \A v \in DOMAIN card_groups["villains"] :
                \E m \in DOMAIN card_groups["masterminds"] : v = C31_Led(m)

\* C31 witness: one mastermind and two villains, the one it always leads
\* among them; the validation returns true.
C31_Witness ==
    /\ result.op = "validate"
    /\ C8_Selected = "villains"
    /\ always_leads
    /\ Size("masterminds") = 1
    /\ Size("villains") = 2
    /\ \A m \in DOMAIN card_groups["masterminds"] :
           C31_Led(m) \in DOMAIN card_groups["villains"]
    /\ result.value = "True"

\* ------------------------- an empty house list over a base list (C32)

\* Whether a layer has a list of the key for the scheme's masterminds.
C32_Defines(layer, scheme, key) ==
    /\ "scheme_rules" \in DOMAIN layer
    /\ str(scheme) \in DOMAIN layer.scheme_rules
    /\ "masterminds" \in DOMAIN layer.scheme_rules[str(scheme)]
    /\ key \in DOMAIN layer.scheme_rules[str(scheme)]["masterminds"]

\* The indices of that list, none when the layer has no list.
C32_ListOf(layer, scheme, key) ==
    IF C32_Defines(layer, scheme, key)
    THEN layer.scheme_rules[str(scheme)]["masterminds"][key]
    ELSE {}

\* The key a rule check asks the rules for.
C32_Key == IF result.op = "_check_required" THEN "required" ELSE "exclusive"

\* A rule check was made for a scheme whose list is not empty in the base
\* rules and is empty in the house rules.
C32_Cancelled ==
    /\ result.op \in {"_check_required", "_check_exclusive"}
    /\ C32_ListOf(rules_config.base, result.scheme, C32_Key) # {}
    /\ C32_Defines(rules_config.house, result.scheme, C32_Key)
    /\ C32_ListOf(rules_config.house, result.scheme, C32_Key) = {}

C33_Members(config) ==
    Cardinality(DOMAIN config["masterminds"]) + Cardinality(DOMAIN config["villains"])
    + Cardinality(DOMAIN config["henchmen"])
    + Cardinality(DOMAIN config["heroes_in_villain_deck"])
    + Cardinality(DOMAIN config["enforcers"])

\* A configuration put on the work list by a pass of the loops holds more
\* card groups than the configuration it was cloned from, and none holds more
\* than the five counts together.
C33_Pushed ==
    /\ (result'.op = "branch" /\ Len(to_process') > Len(to_process))
        => C33_Members(to_process'[Len(to_process')])
               > C33_Members(game_config.card_groups)
    /\ \A i \in DOMAIN to_process' : C33_Members(to_process'[i]) <= Total(count)

C34_Written(log) == {log[k] : k \in DOMAIN log}

\* One step of initialize: the initialization file is written only by a call
\* that has restored the file of every packaged set; a restore_file that
\* raises ends the call with the initialization file untouched; a call with
\* the check that finds the initialization file touches no file.
C34_Step ==
    /\ InitFile \in C34_Written(call'.written)
        => \A legendary_set \in PACKAGED_LEGENDARY_SETS :
               /\ ConfigFile(legendary_set) \in C34_Written(call.written)
               /\ user_data_dir.sets[legendary_set] = "default"
    /\ (result'.op = "restore_file" /\ result'.value # "returned")
        => /\ call'.at = "idle"
           /\ InitFile \notin C34_Written(call'.written)
           /\ user_data_dir' = user_data_dir
    /\ (call.at = "idle" /\ result'.op = "initialize" /\ result'.do_check
        /\ user_data_dir.initialized)
        => /\ call' = Idle(<< >>)
           /\ user_data_dir' = user_data_dir

\* C34: initialize writes the initialization file only after restore_file
\* has returned for every packaged legendary set; when a restore_file raises
\* the file is not written; with the check on and the file there, initialize
\* restores nothing and writes nothing.
C34_MarkerOnlyAfterAllRestored == [][C34_Step]_vars

\* C34 witness: a call has restored the files of both packaged sets and then
\* written the initialization file.
C34_Witness ==
    /\ result.op = "init_file"
    /\ result.value = "returned"
    /\ call = Idle(<<ConfigFile("buffy"), ConfigFile("big_trouble"), InitFile>>)
    /\ user_data_dir.initialized
    /\ \A legendary_set \in PACKAGED_LEGENDARY_SETS :
           user_data_dir.sets[legendary_set] = "default"

\* ------------------------------------------ loading the rules files (C35)

\* One call of _load_rules_configuration: with the layer loaded it changes
\* neither the loaded configuration nor the file and reads and writes
\* nothing; a call that returns having found nothing loaded and no file has
\* loaded the default rules and left them in the file, the other layer and
\* its file as they were.
C35_Step ==
    result'.op = "_load_rules_configuration" =>
        LET rules_type == result'.rules_type
            other == CHOOSE t \in RulesTypes : t # rules_type
        IN  /\ rules_config[rules_type] # "None"
                => /\ rules_config' = rules_config
                   /\ user_data_dir' = user_data_dir
                   /\ ~result'.read
                   /\ ~result'.written
            /\ (/\ rules_config[rules_type] = "None"
                /\ user_data_dir.rules[rules_type] = "absent"
                /\ result'.value = "returned")
                => /\ rules_config'[rules_type] = "default rules"
                   /\ user_data_dir'.rules[rules_type] # "absent"
                   /\ json_load(user_data_dir'.rules[rules_type])
                          = rules_config'[rules_type]
                   /\ rules_config'[other] = rules_config[other]
                   /\ user_data_dir'.rules[other] = user_data_dir.rules[other]

C36_EnforcersBeforeHeroes ==
    (/\ result.op = "next"
     /\ \A c \in {"masterminds", "villains", "henchmen"} : Size(c) >= count[c]
     /\ Size("enforcers") < count["enforcers"]
     /\ Size("heroes_in_villain_deck") < count["heroes_in_villain_deck"])
    => result.value = "enforcers"

\* ------------------------------------- claims about building in order (C37, C38)

\* The components that come before component c in the build order.
C37_Earlier(c) ==
    {Components[i] : i \in {j \in DOMAIN Components :
                              \E k \in DOMAIN Components : j < k /\ Components[k] = c}}

\* C37: when card groups are only appended to the component that
\* next_game_component returns, the component validate() selects (the first
\* non-empty one, enforcers first) is the component last appended to, and
\* every component before it in the build order holds exactly its required
\* count of card groups.
C37_ValidatesLastAppended ==
    result.op = "append" =>
        /\ validated_component = result.component
        /\ \A c \in C37_Earlier(result.component) : Size(c) = count[c]

\* Heroes in the villain deck were appended to after masterminds and henchmen
\* were filled and villains, with a count of zero, were passed over.
C37_Witness ==
    /\ result.op = "append"
    /\ result.component = "heroes_in_villain_deck"
    /\ validated_component = "heroes_in_villain_deck"
    /\ count["villains"] = 0
    /\ Size("masterminds") = 1
    /\ Size("henchmen") = 1

\* C38: while every step of the build has appended a card group that was new
\* to the component next_game_component returned, next_game_component returns
\* False exactly when the number of steps equals the sum of the five required
\* counts (never with fewer steps), and then every component holds exactly
\* its required count of card groups.
C38_DoneAfterTotalSteps ==
    result.fresh =>
        /\ (next_game_component = "False") <=> (result.steps = Total(count))
        /\ result.steps <= Total(count)
        /\ next_game_component = "False" => \A c \in ComponentNames : Size(c) = count[c]

\* A build of three steps over components of counts two and one has ended.
C38_Witness ==
    /\ result.op = "append"
    /\ result.fresh
    /\ result.steps = MaxTotal
    /\ Total(count) = MaxTotal
    /\ \E c \in ComponentNames : count[c] = MaxCount
    /\ next_game_component = "False"

\* ------------------------------------------ claims about read-only calls (C39)

\* C39: a call of validate() or of next_game_component(), returning or
\* raising, leaves the scheme's set, the always-leads flag, every component's
\* required count and every component's card groups as they were; and no step
\* at all changes a required count.
C39_Step ==
    /\ count' = count
    /\ result'.op \in {"validate", "next"} =>
           /\ card_groups' = card_groups
           /\ always_leads' = always_leads
           /\ scheme_set_name' = scheme_set_name

C39_ReadOnly == [][C39_Step]_vars

\* validate() raised ValidationError on a configuration with one mastermind
\* of two.
C39_Witness ==
    /\ result.op = "validate"
    /\ result.value = "ValidationError"
    /\ count["masterminds"] = MaxCount
    /\ Size("masterminds") = 1

====
